---- MODULE Spec2Model ----
(***************************************************************************)
(* A model of the instruction-lowering driver (machinst/lower.rs), the     *)
(* ARM64 lowering backend (isa/arm64/lower.rs) and the minimal register    *)
(* allocator (regalloc/alt_alloc.rs).                                      *)
(***************************************************************************)
EXTENDS Integers, Sequences, FiniteSets, TLC

VARIABLES
    f,              \* Lower.f: the IR function being lowered
    insts,          \* Lower.insts: the emitted machine instructions
    num_uses,       \* Lower.num_uses: Inst -> remaining uses
    inst_indices,   \* Lower.inst_indices: Inst -> <<start, end>> in insts
    value_regs,     \* Lower.value_regs: Value -> MachReg
    next_vreg,      \* Lower.next_vreg
    cur_inst,       \* Lower.cur_inst: Option<Inst>
    pos,            \* position of Lower::lower's loops in the visiting order
    panicked,       \* an assertion failed / panic!: the compilation aborted
    lowered,        \* history: the instructions passed to backend.lower
    folds,          \* history: <<producer, consumer>> pairs merged by the backend
    group,          \* the branch group handed to lower_branch_group: its
                    \* branches, their targets, the fallthrough block
    alloc           \* the minimal allocator: its Context (function, locations,
                    \* stack slots, cursor), its Regs and its position

lowerVars == <<f, insts, num_uses, inst_indices, value_regs, next_vreg, cur_inst,
               pos, panicked, lowered, folds, group>>

vars == <<lowerVars, alloc>>

(***************************************************************************)
(* Bounds of the model.                                                    *)
(***************************************************************************)
NumInsts == 3       \* instructions of the function being lowered
MaxEmit == 1        \* machine instructions an arbitrary backend emits in all
MaxTmp == 2         \* temporaries an arbitrary backend allocates in all
MaxAddends == 3     \* addends of a load's address

(***************************************************************************)
(* The IR function: fn.inst is the sequence of the instructions in layout  *)
(* order, instructions 1..fn.nfirst are the first ebb's and the rest (if   *)
(* any) the second ebb's; fn.ptypes[e] lists the types of ebb e's          *)
(* parameters.  Param(e, k) is the k-th parameter of ebb e, Result(i) the  *)
(* result of instruction i.                                                *)
(***************************************************************************)
Param(e, k) == [def |-> "Param", ebb |-> e, num |-> k]
Result(i) == [def |-> "Result", inst |-> i, num |-> 1]
P1 == Param(1, 1)
P2 == Param(2, 1)

None == <<>>
Some(x) == <<x>>

Undefined == [tag |-> "Undefined"]
Virtual(n) == [tag |-> "Virtual", n |-> n]

\* A 64-bit value is the tuple of its four 16-bit halfwords, lowest first.
U64(n) == <<n % 65536, (n \div 65536) % 65536, 0, 0>>

InstsOf(fn) == DOMAIN fn.inst
MaxArgs == IF MaxAddends > 2 THEN MaxAddends ELSE 2
layout_ebbs(fn) == IF fn.nfirst = Len(fn.inst) THEN <<1>> ELSE <<1, 2>>
ebb_params(fn, ebb) == [k \in 1 .. Len(fn.ptypes[ebb]) |-> Param(ebb, k)]
ebb_insts(fn, ebb) ==
    IF ebb = 1 THEN [k \in 1 .. fn.nfirst |-> k]
    ELSE [k \in 1 .. (Len(fn.inst) - fn.nfirst) |-> fn.nfirst + k]
inst_ebb(fn, i) == IF i <= fn.nfirst THEN 1 ELSE 2
inst_args(fn, i) == fn.inst[i].args
inst_results(fn, i) == <<Result(i)>>
value_type(fn, v) ==
    IF v.def = "Param" THEN fn.ptypes[v.ebb][v.num] ELSE fn.inst[v.inst].ty
ValuesOf(fn) ==
    UNION {{ebb_params(fn, layout_ebbs(fn)[n])[k] :
                k \in DOMAIN ebb_params(fn, layout_ebbs(fn)[n])} :
                    n \in DOMAIN layout_ebbs(fn)}
    \cup {Result(i) : i \in InstsOf(fn)}

(***************************************************************************)
(* The functions the driver is run over: NumInsts well-typed instructions, *)
(* each using values defined before it in the layout, in one ebb or split  *)
(* over two; the first ebb has an I64 parameter, the second an I32 one;     *)
(* constants are 64-bit.                                                   *)
(***************************************************************************)
Imms == {3, 5000}
GenParams == <<(<<"I64">>), (<<"I32">>)>>

Avail(nfirst, k) ==
    {P1} \cup {Result(j) : j \in 1 .. (k - 1)} \cup (IF k > nfirst THEN {P2} ELSE {})

PrefixType(s, v) ==
    IF v.def = "Param" THEN GenParams[v.ebb][v.num] ELSE s[v.inst].ty

MkInst(o, as, m, off, t) ==
    [opcode |-> o, args |-> as, imm |-> m, offset |-> off, ty |-> t]

\* The well-typed instructions that may follow the prefix s as instruction k.
InstChoices(ops, s, nfirst, k) ==
    LET av == Avail(nfirst, k) IN
    {MkInst(o, <<>>, U64(m), 0, "I64") : o \in ops \cap {"iconst"}, m \in Imms}
    \cup
    {MkInst(o, <<p[1], p[2]>>, U64(0), 0, PrefixType(s, p[1])) :
        o \in ops \cap {"iadd", "isub", "imul"},
        p \in {q \in av \X av : PrefixType(s, q[1]) = PrefixType(s, q[2])}}
    \cup
    {MkInst(o, <<a, b>>, U64(0), 0, PrefixType(s, a)) :
        o \in ops \cap {"ishl"}, a \in av, b \in av}
    \cup
    {MkInst(o, <<a>>, U64(0), 0, "I64") :
        o \in ops \cap {"uextend", "sextend"},
        a \in {x \in av : PrefixType(s, x) = "I32"}}

(***************************************************************************)
(* Sequence helpers.                                                       *)
(***************************************************************************)
RECURSIVE Reverse(_)
Reverse(s) == IF s = <<>> THEN <<>> ELSE Append(Reverse(Tail(s)), Head(s))

RECURSIVE Concat(_)
Concat(ss) == IF ss = <<>> THEN <<>> ELSE Head(ss) \o Concat(Tail(ss))

Count(s, x) == Cardinality({k \in DOMAIN s : s[k] = x})

(***************************************************************************)
(* Lower::new.                                                             *)
(***************************************************************************)
\* alloc_vreg without the test for a register assigned before.
alloc_vreg_always(st, value) ==
    [value_regs |-> [st.value_regs EXCEPT ![value] = Virtual(st.next_vreg)],
     next_vreg |-> st.next_vreg + 1]

alloc_vreg(st, value) ==
    IF st.value_regs[value] = Undefined
    THEN [value_regs |-> [st.value_regs EXCEPT ![value] = Virtual(st.next_vreg)],
          next_vreg |-> st.next_vreg + 1]
    ELSE st

RECURSIVE alloc_vregs(_, _)
alloc_vregs(st, vals) ==
    IF vals = <<>> THEN st ELSE alloc_vregs(alloc_vreg(st, Head(vals)), Tail(vals))

\* The body of the loop over an ebb's instructions, lines 104-111.
new_scan_inst_args_only(fn, st, inst) == alloc_vregs(st, inst_args(fn, inst))

new_scan_inst(fn, st, inst) ==
    alloc_vregs(alloc_vregs(st, inst_args(fn, inst)), inst_results(fn, inst))

RECURSIVE new_scan_insts(_, _, _)
new_scan_insts(fn, st, is) ==
    IF is = <<>> THEN st
    ELSE new_scan_insts(fn, new_scan_inst(fn, st, Head(is)), Tail(is))

RECURSIVE new_scan_ebbs(_, _, _)
new_scan_ebbs(fn, st, ebbs) ==
    IF ebbs = <<>> THEN st
    ELSE new_scan_ebbs(fn,
            new_scan_insts(fn, alloc_vregs(st, ebb_params(fn, Head(ebbs))),
                           ebb_insts(fn, Head(ebbs))),
            Tail(ebbs))

\* NumUses::compute(f).take_uses(): the number of consumers of each instruction.
NumUses_compute(fn) ==
    [i \in InstsOf(fn) |->
        Cardinality({jk \in InstsOf(fn) \X (1 .. MaxArgs) :
                        /\ jk[2] <= Len(inst_args(fn, jk[1]))
                        /\ inst_args(fn, jk[1])[jk[2]] = Result(i)})]

Lower_new(fn) ==
    LET st == new_scan_ebbs(fn, [value_regs |-> [v \in ValuesOf(fn) |-> Undefined],
                                 next_vreg |-> 0], layout_ebbs(fn))
    IN  [f |-> fn,
         insts |-> <<>>,
         num_uses |-> NumUses_compute(fn),
         inst_indices |-> [i \in InstsOf(fn) |-> <<0, 0>>],
         value_regs |-> st.value_regs,
         next_vreg |-> st.next_vreg,
         cur_inst |-> None,
         panicked |-> FALSE,
         folds |-> {}]

(***************************************************************************)
(* The LowerCtx operations, as functions of the context record.            *)
(***************************************************************************)
Ctx == [f |-> f, insts |-> insts, num_uses |-> num_uses,
        inst_indices |-> inst_indices, value_regs |-> value_regs,
        next_vreg |-> next_vreg, cur_inst |-> cur_inst, panicked |-> panicked,
        folds |-> folds]

Panic(c) == [c EXCEPT !.panicked = TRUE]

start_inst(c, inst) ==
    [c EXCEPT !.cur_inst = Some(inst),
              !.inst_indices[inst] = <<Len(c.insts), Len(c.insts)>>]

end_inst(c) == [c EXCEPT !.cur_inst = None]

\* emit without the bump of the end of the range (line 168).
emit_keep_end(c, mach_inst) ==
    IF c.panicked THEN c
    ELSE IF c.cur_inst = None THEN Panic(c)
    ELSE [c EXCEPT !.insts = Append(c.insts, mach_inst)]

emit(c, mach_inst) ==
    IF c.panicked THEN c
    ELSE IF c.cur_inst = None THEN Panic(c)
    ELSE LET cur == c.cur_inst[1] IN
         [c EXCEPT !.insts = Append(c.insts, mach_inst),
                   !.inst_indices[cur] = <<c.inst_indices[cur][1], Len(c.insts) + 1>>]

dec_use_no_assert(c, ir_inst) ==
    IF c.panicked THEN c
    ELSE [c EXCEPT !.num_uses[ir_inst] = c.num_uses[ir_inst] - 1]

dec_use(c, ir_inst) ==
    IF c.panicked THEN c
    ELSE IF ~(c.num_uses[ir_inst] > 0)
    THEN Panic(c)
    ELSE [c EXCEPT !.num_uses[ir_inst] = c.num_uses[ir_inst] - 1]

input_inst(c, ir_inst, idx) ==
    LET val == inst_args(c.f, ir_inst)[idx] IN
    IF val.def = "Result" THEN Some(<<val.inst, val.num>>) ELSE None

input(c, ir_inst, idx) == c.value_regs[inst_args(c.f, ir_inst)[idx]]

output(c, ir_inst, idx) == c.value_regs[inst_results(c.f, ir_inst)[idx]]

ebb_param(c, ebb, idx) == c.value_regs[ebb_params(c.f, ebb)[idx]]

num_inputs(c, ir_inst) == Len(inst_args(c.f, ir_inst))

num_outputs(c, ir_inst) == Len(inst_results(c.f, ir_inst))

input_ty(c, ir_inst, idx) == value_type(c.f, inst_args(c.f, ir_inst)[idx])

output_ty(c, ir_inst, idx) == value_type(c.f, inst_results(c.f, ir_inst)[idx])

\* tmp returns the new register and the context with next_vreg bumped.
tmp(c) ==
    [reg |-> Virtual(c.next_vreg),
     ctx |-> [c EXCEPT !.next_vreg = c.next_vreg + 1]]

(***************************************************************************)
(* Lower::lower: ebbs in reverse layout order, each ebb's instructions in  *)
(* reverse, skipping the instructions with no use left.                    *)
(***************************************************************************)
LowerOrderForward(fn) ==
    Concat([k \in DOMAIN layout_ebbs(fn) |-> ebb_insts(fn, layout_ebbs(fn)[k])])

LowerOrder(fn) ==
    Concat([k \in DOMAIN layout_ebbs(fn) |->
                Reverse(ebb_insts(fn, Reverse(layout_ebbs(fn))[k]))])

ShouldLowerAlways(n) == n >= 0

ShouldLower(n) == n > 0

SetCtx(c) ==
    /\ f' = c.f
    /\ insts' = c.insts
    /\ num_uses' = c.num_uses
    /\ inst_indices' = c.inst_indices
    /\ value_regs' = c.value_regs
    /\ next_vreg' = c.next_vreg
    /\ cur_inst' = c.cur_inst
    /\ panicked' = c.panicked
    /\ folds' = c.folds
    /\ UNCHANGED <<alloc, group>>

Insts == InstsOf(f)

Traversing == ~panicked /\ pos <= Len(LowerOrder(f))
NextInst == LowerOrder(f)[pos]

\* The loop body when the instruction has no use left: nothing happens.
LowerSkip ==
    /\ Traversing /\ cur_inst = None
    /\ ~ShouldLower(num_uses[NextInst])
    /\ pos' = pos + 1
    /\ UNCHANGED <<f, insts, num_uses, inst_indices, value_regs, next_vreg,
                   cur_inst, panicked, lowered, folds, alloc, group>>

\* The loop body up to the call of backend.lower.
LowerStart ==
    /\ Traversing /\ cur_inst = None
    /\ ShouldLower(num_uses[NextInst])
    /\ lowered' = lowered \cup {NextInst}
    /\ SetCtx(start_inst(Ctx, NextInst))
    /\ UNCHANGED pos

\* An arbitrary backend, inside backend.lower, calls emit ...
BackendEmit ==
    /\ ~panicked /\ cur_inst # None
    /\ Len(insts) < MaxEmit
    /\ SetCtx(emit(Ctx, [op |-> "MachInst", for |-> cur_inst[1]]))
    /\ UNCHANGED <<pos, lowered>>

\* ... or dec_use of any instruction ...
BackendDecUseOf(i) ==
    /\ ~panicked /\ cur_inst # None
    /\ SetCtx(dec_use(Ctx, i))
    /\ UNCHANGED <<pos, lowered>>

BackendDecUse == \E i \in Insts : BackendDecUseOf(i)

\* ... or tmp.
BackendTmp ==
    /\ ~panicked /\ cur_inst # None
    /\ next_vreg < Lower_new(f).next_vreg + MaxTmp
    /\ SetCtx(tmp(Ctx).ctx)
    /\ UNCHANGED <<pos, lowered>>

\* backend.lower returns: end_inst, and the loop goes on.
LowerEnd ==
    /\ ~panicked /\ cur_inst # None
    /\ SetCtx(end_inst(Ctx))
    /\ pos' = pos + 1
    /\ UNCHANGED lowered

\* No allocation is running.
AllocIdle == [pc |-> "idle"]

\* No branch group is to be lowered.
NoGroup == [branches |-> <<>>, targets |-> <<>>, fallthrough |-> <<>>]

InitLowerCtx(c) ==
    /\ f = c.f
    /\ insts = c.insts
    /\ num_uses = c.num_uses
    /\ inst_indices = c.inst_indices
    /\ value_regs = c.value_regs
    /\ next_vreg = c.next_vreg
    /\ cur_inst = c.cur_inst
    /\ panicked = c.panicked
    /\ folds = c.folds
    /\ pos = 1
    /\ lowered = {}

InitLower(c) == InitLowerCtx(c) /\ group = NoGroup

InitFrom(c) == InitLower(c) /\ alloc = AllocIdle

\* The opcodes of the functions an arbitrary backend is driven over.
GenericOps == {"iadd"}

\* The driver is constructed over any function of the family: its
\* instructions are chosen one after the other.
RECURSIVE InitFunctions(_, _, _)
InitFunctions(ops, nfirst, s) ==
    IF Len(s) = NumInsts
    THEN InitFrom(Lower_new([ptypes |-> GenParams, nfirst |-> nfirst, inst |-> s]))
    ELSE \E c \in InstChoices(ops, s, nfirst, Len(s) + 1) :
            InitFunctions(ops, nfirst, Append(s, c))

Init == \E n \in 1 .. NumInsts : InitFunctions(GenericOps, n, <<>>)

Next ==
    \/ LowerSkip
    \/ LowerStart
    \/ BackendEmit
    \/ BackendDecUse
    \/ BackendTmp
    \/ LowerEnd

Spec == Init /\ [][Next]_vars

(***************************************************************************)
(* Claims about the lowering driver under an arbitrary backend.            *)
(***************************************************************************)
Visited == {LowerOrder(f)[k] : k \in 1 .. (pos - 1)}

\* C1: after Lower::new every block parameter, instruction argument and
\* instruction result of the layout has a virtual register (never Undefined),
\* and input(), output() and ebb_param() keep returning that same register
\* whatever emit, dec_use and tmp calls are made.
C1_AllAssigned ==
    /\ \A e \in DOMAIN layout_ebbs(f) : \A k \in DOMAIN ebb_params(f, e) :
            ebb_param(Ctx, e, k).tag = "Virtual"
    /\ \A i \in Insts :
            /\ \A k \in DOMAIN inst_args(f, i) : input(Ctx, i, k).tag = "Virtual"
            /\ \A k \in DOMAIN inst_results(f, i) : output(Ctx, i, k).tag = "Virtual"

C1_Stable ==
    /\ \A e \in DOMAIN layout_ebbs(f) : \A k \in DOMAIN ebb_params(f, e) :
            ebb_param(Ctx, e, k)' = ebb_param(Ctx, e, k)
    /\ \A i \in Insts :
            /\ \A k \in DOMAIN inst_args(f, i) : input(Ctx, i, k)' = input(Ctx, i, k)
            /\ \A k \in DOMAIN inst_results(f, i) :
                    output(Ctx, i, k)' = output(Ctx, i, k)

C1_VregTotality == [](C1_AllAssigned) /\ [][C1_Stable]_vars

\* C1 witness: lowering is under way in a two-ebb function and the backend has
\* emitted, decremented a use-count and allocated a temporary.
C1_Witness ==
    /\ Len(layout_ebbs(f)) = 2
    /\ Len(insts) > 0
    /\ num_uses # NumUses_compute(f)
    /\ next_vreg > Lower_new(f).next_vreg
    /\ C1_AllAssigned

\* C2 (as claimed): an instruction whose use-count has reached zero has not
\* been passed to the backend and has no machine instruction in its range.
C2_ZeroNeverLowered ==
    \A i \in Insts :
        num_uses[i] = 0 => (i \notin lowered /\ inst_indices[i][1] = inst_indices[i][2])

\* C2 (amended): an instruction is passed to the backend only if its use-count
\* is above zero at the moment the traversal reaches it; an instruction that
\* was reached with a zero count is never passed and its range stays empty.
C2_PassedOnlyWithUses ==
    \A i \in Insts : (i \in lowered' /\ i \notin lowered) => num_uses[i] > 0

C2_SkippedHasNoRange ==
    \A i \in Visited \ lowered : inst_indices[i] = <<0, 0>>

C2_ZeroWhenReachedNeverLowered ==
    [][C2_PassedOnlyWithUses]_vars /\ [](C2_SkippedHasNoRange)

\* C2 witness: an instruction that had uses at construction was decremented
\* to zero by the backend, then reached and skipped.
C2_Witness ==
    \E i \in Visited \ lowered :
        /\ NumUses_compute(f)[i] > 0
        /\ num_uses[i] = 0
        /\ Len(insts) > 0

\* C3: a use-count never goes negative and never grows; dec_use of an
\* instruction with a count above zero lowers that count by exactly one and
\* leaves every other count alone; dec_use of an instruction whose count is
\* zero is a fatal assertion failure that leaves the count at zero.
C3_Step ==
    /\ \A i \in Insts : num_uses'[i] >= 0 /\ num_uses'[i] <= num_uses[i]
    /\ \A i \in Insts :
            BackendDecUseOf(i) =>
                IF num_uses[i] > 0
                THEN /\ num_uses' = [num_uses EXCEPT ![i] = num_uses[i] - 1]
                     /\ ~panicked'
                ELSE /\ panicked'
                     /\ num_uses' = num_uses
                     /\ num_uses'[i] = 0
    /\ (\A i \in Insts : ~BackendDecUseOf(i)) => num_uses' = num_uses

C3_UseCountMonotone == [](\A i \in Insts : num_uses[i] >= 0) /\ [][C3_Step]_vars

\* C3 witness: a count was decremented, and a dec_use of a zero count then
\* failed its assertion.
C3_Witness ==
    /\ panicked
    /\ \E i \in Insts : num_uses[i] = 0 /\ NumUses_compute(f)[i] > 0

(***************************************************************************)
(* The ARM64 backend.  An operation that changes the lowering context      *)
(* returns the record [ctx, val] of the new context and its result.        *)
(* Inputs and outputs are numbered from 1.  A 64-bit value is the tuple of *)
(* its four halfwords.                                                     *)
(***************************************************************************)
Ret(c, v) == [ctx |-> c, val |-> v]

Zero64 == <<0, 0, 0, 0>>
Not64(v) == [k \in 1 .. 4 |-> 65535 - v[k]]

\* Bit n (0 .. 63) of a 64-bit value.
Bit64(v, n) == (v[(n \div 16) + 1] \div (2 ^ (n % 16))) % 2

\* offset as i64 as u64: the sign extension of a 32-bit offset.
I32ToU64(off) ==
    <<off % 65536, (off \div 65536) % 65536,
      IF off < 0 THEN 65535 ELSE 0, IF off < 0 THEN 65535 ELSE 0>>

InsnOutput(i, n) == [insn |-> i, output |-> n]
InsnInput(i, n) == [insn |-> i, input |-> n]

ty_bits(ty) ==
    CASE ty = "B1" -> 1
      [] ty = "I8" -> 8
      [] ty = "I16" -> 16
      [] ty = "I32" -> 32
      [] ty = "I64" -> 64

choose_32_64(ty, op32, op64) == IF ty_bits(ty) <= 32 THEN op32 ELSE op64

\* Imm12::maybe_from_u64: an unsigned 12-bit immediate.
Imm12_maybe_from_u64(v) ==
    IF v[1] < 4096 /\ v[2] = 0 /\ v[3] = 0 /\ v[4] = 0 THEN Some(v[1]) ELSE None

\* ShiftOpShiftImm::maybe_from_shift: a shift amount of a 64-bit register.
ShiftOpShiftImm_maybe_from_shift(v) ==
    IF v[1] < 64 /\ v[2] = 0 /\ v[3] = 0 /\ v[4] = 0 THEN Some(v[1]) ELSE None

\* MoveWideConst::maybe_from_u64: one 16-bit immediate shifted by 0, 16, 32 or
\* 48 bits, every other halfword being zero.
MoveWideConst_maybe_from_u64(v) ==
    IF \E k \in 1 .. 4 : \A j \in (1 .. 4) \ {k} : v[j] = 0
    THEN LET k == CHOOSE k \in 1 .. 4 : \A j \in (1 .. 4) \ {k} : v[j] = 0
         IN  Some([bits |-> v[k], shift |-> IF v = Zero64 THEN 0 ELSE k - 1])
    ELSE None

\* ImmLogic::maybe_from_u64: the ARM64 logical immediates, a rotated run of
\* ones in an element of 2, 4, 8, 16, 32 or 64 bits replicated over the
\* register (never all zeros, never all ones).
ImmLogic_maybe_from_u64(v) ==
    IF \E e \in {2, 4, 8, 16, 32, 64} :
          /\ \A n \in 0 .. (63 - e) : Bit64(v, n) = Bit64(v, n + e)
          /\ Cardinality({n \in 0 .. (e - 1) :
                            Bit64(v, n) # Bit64(v, (n + 1) % e)}) = 2
    THEN Some(v) ELSE None

\* ctx.merged(inst): the producer is incorporated into the instruction being
\* lowered; its use-count is reduced (dec_use), and the merge is recorded.
merged(c, inst) ==
    IF c.panicked THEN c
    ELSE LET d == dec_use(c, inst) IN
         IF d.panicked THEN d
         ELSE [d EXCEPT !.folds = d.folds \cup {<<inst, c.cur_inst[1]>>}]

get_input(c, out, num) == InsnInput(out.insn, num)

input_source(c, in) ==
    IF input_inst(c, in.insn, in.input) # None
    THEN [tag |-> "Output",
          out |-> InsnOutput(input_inst(c, in.insn, in.input)[1][1],
                             input_inst(c, in.insn, in.input)[1][2])]
    ELSE [tag |-> "Reg", reg |-> input(c, in.insn, in.input)]

output_to_const(c, out) ==
    IF out.output > 1 THEN None
    ELSE IF c.f.inst[out.insn].opcode = "iconst" THEN Some(c.f.inst[out.insn].imm)
    ELSE None

output_to_shiftimm(c, out) ==
    IF output_to_const(c, out) = None THEN None
    ELSE ShiftOpShiftImm_maybe_from_shift(output_to_const(c, out)[1])

MkExtend(rd, rn, signed, from_bits, to_bits) ==
    [op |-> "Extend", rd |-> rd, rn |-> rn, signed |-> signed,
     from_bits |-> from_bits, to_bits |-> to_bits]

input_to_reg(c, in, narrow_mode) ==
    LET ty == input_ty(c, in.insn, in.input)
        from_bits == ty_bits(ty)
        to_bits == IF from_bits < 32 THEN 32 ELSE 64
        raw_reg == input(c, in.insn, in.input)
    IN  IF narrow_mode = "ZeroExtend" /\ from_bits < 32
        THEN Ret(emit(c, MkExtend(raw_reg, raw_reg, FALSE, from_bits, to_bits)), raw_reg)
        ELSE IF narrow_mode = "SignExtend" /\ from_bits < 32
        THEN Ret(emit(c, MkExtend(raw_reg, raw_reg, TRUE, from_bits, to_bits)), raw_reg)
        ELSE Ret(c, raw_reg)

output_to_reg(c, out) == output(c, out.insn, out.output)

ExtendOpOf(signed, bits) ==
    CASE bits = 1 -> IF signed THEN "SXTB" ELSE "UXTB"
      [] bits = 8 -> IF signed THEN "SXTB" ELSE "UXTB"
      [] bits = 16 -> IF signed THEN "SXTH" ELSE "UXTH"
      [] bits = 32 -> IF signed THEN "SXTW" ELSE "UXTW"

RseReg(r) == [tag |-> "Reg", reg |-> r]
RseRegShift(r, amt) == [tag |-> "RegShift", reg |-> r, shiftop |-> <<"LSL", amt>>]
RseRegExtend(r, e) == [tag |-> "RegExtend", reg |-> r, extendop |-> e]
RseImm12(i) == [tag |-> "Imm12", imm12 |-> i]

\* The shift amount of an ishl as an immediate, if its producer is a constant
\* that fits (lines 288-289).
ishl_shift_amt(c, out) ==
    LET src == input_source(c, get_input(c, out, 2)) IN
    IF src.tag = "Output" /\ output_to_shiftimm(c, src.out) # None
    THEN Some([out |-> src.out, shiftimm |-> output_to_shiftimm(c, src.out)[1]])
    ELSE None

\* output_to_rse without the merge of the producer of the shift amount.
output_to_rse_shift_only(c, out, narrow_mode) ==
    LET insn == out.insn
        op == c.f.inst[insn].opcode
        out_bits == ty_bits(output_ty(c, insn, out.output))
    IN  IF c.panicked THEN Ret(c, RseReg(Undefined))
        ELSE IF ~(out.output <= num_outputs(c, insn)) THEN Ret(Panic(c), RseReg(Undefined))
        ELSE IF out_bits < 32 /\ narrow_mode # "None"
        THEN Ret(c, RseRegExtend(output_to_reg(c, out),
                                 ExtendOpOf(narrow_mode = "SignExtend", out_bits)))
        ELSE IF op = "ishl" /\ ishl_shift_amt(c, out) # None
        THEN LET amt == ishl_shift_amt(c, out)[1]
                 r == input_to_reg(c, get_input(c, out, 1), narrow_mode)
             IN  Ret(merged(r.ctx, insn),
                     RseRegShift(r.val, amt.shiftimm))
        ELSE IF op \in {"uextend", "sextend"}
        THEN LET extendee == get_input(c, out, 1)
                 inner_bits == ty_bits(input_ty(c, extendee.insn, extendee.input))
                 r == input_to_reg(c, extendee, "None")
             IN  IF ~(out_bits = 32 \/ out_bits = 64) \/ ~(inner_bits < out_bits)
                 THEN Ret(Panic(c), RseReg(Undefined))
                 ELSE Ret(merged(r.ctx, insn),
                          RseRegExtend(r.val, ExtendOpOf(op = "sextend", inner_bits)))
        ELSE Ret(c, RseReg(output_to_reg(c, out)))

output_to_rse(c, out, narrow_mode) ==
    LET insn == out.insn
        op == c.f.inst[insn].opcode
        out_bits == ty_bits(output_ty(c, insn, out.output))
    IN  IF c.panicked THEN Ret(c, RseReg(Undefined))
        ELSE IF ~(out.output <= num_outputs(c, insn)) THEN Ret(Panic(c), RseReg(Undefined))
        ELSE IF out_bits < 32 /\ narrow_mode # "None"
        THEN Ret(c, RseRegExtend(output_to_reg(c, out),
                                 ExtendOpOf(narrow_mode = "SignExtend", out_bits)))
        ELSE IF op = "ishl" /\ ishl_shift_amt(c, out) # None
        THEN LET amt == ishl_shift_amt(c, out)[1]
                 r == input_to_reg(c, get_input(c, out, 1), narrow_mode)
             IN  Ret(merged(merged(r.ctx, insn), amt.out.insn),
                     RseRegShift(r.val, amt.shiftimm))
        ELSE IF op \in {"uextend", "sextend"}
        THEN LET extendee == get_input(c, out, 1)
                 inner_bits == ty_bits(input_ty(c, extendee.insn, extendee.input))
                 r == input_to_reg(c, extendee, "None")
             IN  IF ~(out_bits = 32 \/ out_bits = 64) \/ ~(inner_bits < out_bits)
                 THEN Ret(Panic(c), RseReg(Undefined))
                 ELSE Ret(merged(r.ctx, insn),
                          RseRegExtend(r.val, ExtendOpOf(op = "sextend", inner_bits)))
        ELSE Ret(c, RseReg(output_to_reg(c, out)))

\* output_to_rse_imm12 with the merge made as soon as the producer is seen to
\* be a constant, before the immediate is known to fit.
output_to_rse_imm12_merge_first(c, out, narrow_mode) ==
    IF output_to_const(c, out) # None
    THEN IF Imm12_maybe_from_u64(output_to_const(c, out)[1]) # None
         THEN Ret(merged(c, out.insn),
                  RseImm12(Imm12_maybe_from_u64(output_to_const(c, out)[1])[1]))
         ELSE output_to_rse(merged(c, out.insn), out, narrow_mode)
    ELSE output_to_rse(c, out, narrow_mode)

output_to_rse_imm12(c, out, narrow_mode) ==
    IF output_to_const(c, out) # None
       /\ Imm12_maybe_from_u64(output_to_const(c, out)[1]) # None
    THEN Ret(merged(c, out.insn),
             RseImm12(Imm12_maybe_from_u64(output_to_const(c, out)[1])[1]))
    ELSE output_to_rse(c, out, narrow_mode)

RseImmLogic(i) == [tag |-> "ImmLogic", immlogic |-> i]

output_to_rse_immlogic(c, out, narrow_mode) ==
    IF output_to_const(c, out) # None
       /\ ImmLogic_maybe_from_u64(output_to_const(c, out)[1]) # None
    THEN Ret(merged(c, out.insn),
             RseImmLogic(ImmLogic_maybe_from_u64(output_to_const(c, out)[1])[1]))
    ELSE output_to_rse(c, out, narrow_mode)

input_to_rse(c, in, narrow_mode) ==
    IF input_source(c, in).tag = "Output"
    THEN output_to_rse(c, input_source(c, in).out, narrow_mode)
    ELSE Ret(c, RseReg(input_source(c, in).reg))

input_to_rse_imm12(c, in, narrow_mode) ==
    IF input_source(c, in).tag = "Output"
    THEN output_to_rse_imm12(c, input_source(c, in).out, narrow_mode)
    ELSE Ret(c, RseReg(input_source(c, in).reg))

alu_inst_imm12(op, rd, rn, rm) ==
    CASE rm.tag = "Imm12" ->
            [op |-> "AluRRImm12", alu_op |-> op, rd |-> rd, rn |-> rn, imm12 |-> rm.imm12]
      [] rm.tag = "Reg" ->
            [op |-> "AluRRR", alu_op |-> op, rd |-> rd, rn |-> rn, rm |-> rm.reg]
      [] rm.tag = "RegShift" ->
            [op |-> "AluRRRShift", alu_op |-> op, rd |-> rd, rn |-> rn, rm |-> rm.reg,
             shiftop |-> rm.shiftop]
      [] rm.tag = "RegExtend" ->
            [op |-> "AluRRRExtend", alu_op |-> op, rd |-> rd, rn |-> rn, rm |-> rm.reg,
             extendop |-> rm.extendop]

zero_reg == [tag |-> "Real", n |-> 31]

lower_constant_logic_before_movn(c, rd, value) ==
    IF MoveWideConst_maybe_from_u64(value) # None
    THEN emit(c, [op |-> "MovZ", rd |-> rd,
                  imm |-> MoveWideConst_maybe_from_u64(value)[1]])
    ELSE IF ImmLogic_maybe_from_u64(value) # None
    THEN emit(c, [op |-> "AluRRImmLogic", alu_op |-> "Orr64", rd |-> rd,
                  rn |-> zero_reg, imml |-> ImmLogic_maybe_from_u64(value)[1]])
    ELSE IF MoveWideConst_maybe_from_u64(Not64(value)) # None
    THEN emit(c, [op |-> "MovN", rd |-> rd,
                  imm |-> MoveWideConst_maybe_from_u64(Not64(value))[1]])
    ELSE emit(c, [op |-> "ULoad64", rd |-> rd,
                  mem |-> [tag |-> "Label", data |-> value]])

lower_constant(c, rd, value) ==
    IF MoveWideConst_maybe_from_u64(value) # None
    THEN emit(c, [op |-> "MovZ", rd |-> rd,
                  imm |-> MoveWideConst_maybe_from_u64(value)[1]])
    ELSE IF MoveWideConst_maybe_from_u64(Not64(value)) # None
    THEN emit(c, [op |-> "MovN", rd |-> rd,
                  imm |-> MoveWideConst_maybe_from_u64(Not64(value))[1]])
    ELSE IF ImmLogic_maybe_from_u64(value) # None
    THEN emit(c, [op |-> "AluRRImmLogic", alu_op |-> "Orr64", rd |-> rd,
                  rn |-> zero_reg, imml |-> ImmLogic_maybe_from_u64(value)[1]])
    ELSE emit(c, [op |-> "ULoad64", rd |-> rd,
                  mem |-> [tag |-> "Label", data |-> value]])

type_bytes(ty) == ty_bits(ty) \div 8

\* MemArg::reg_maybe_offset: base register plus immediate offset, when the
\* offset fits the addressing immediate (signed 9-bit unscaled, or unsigned
\* 12-bit scaled by the size of the access).
reg_maybe_offset(reg, offset, value_ty) ==
    IF \/ (offset >= -256 /\ offset <= 255)
       \/ (offset >= 0 /\ offset % type_bytes(value_ty) = 0
           /\ offset \div type_bytes(value_ty) <= 4095)
    THEN Some([tag |-> "BaseOffset", reg |-> reg, offset |-> offset])
    ELSE None

\* The loop of lines 458-466: each addend is added to the address register.
RECURSIVE add_addends(_, _, _)
add_addends(c, addr, addends) ==
    IF addends = <<>> THEN c
    ELSE LET r == input_to_reg(c, Head(addends), "ZeroExtend") IN
         add_addends(emit(r.ctx, [op |-> "AluRRR", alu_op |-> "Add64", rd |-> addr,
                                  rn |-> addr, rm |-> r.val]),
                     addr, Tail(addends))

\* Lines 451-468: the address is accumulated in a fresh temporary.
lower_address_adds(c, addends, offset) ==
    LET t == tmp(c)
        addr == t.reg
    IN  Ret(add_addends(lower_constant(t.ctx, addr, I32ToU64(offset)), addr, addends),
            [tag |-> "Base", reg |-> addr])

lower_address_adds_always(c, elem_ty, addends, offset) ==
    lower_address_adds(c, addends, offset)

lower_address(c, elem_ty, addends, offset) ==
    LET r1 == input_to_reg(c, addends[1], "ZeroExtend")
        one == Len(addends) = 1
    IN  IF one /\ reg_maybe_offset(r1.val, offset, elem_ty) # None
        THEN Ret(r1.ctx, reg_maybe_offset(r1.val, offset, elem_ty)[1])
        ELSE LET c1 == IF one THEN r1.ctx ELSE c IN
             IF Len(addends) = 2 /\ offset = 0
             THEN LET ra == input_to_reg(c1, addends[1], "ZeroExtend")
                      rb == input_to_reg(ra.ctx, addends[2], "ZeroExtend")
                  IN  Ret(rb.ctx, [tag |-> "BasePlusReg", ra |-> ra.val, rb |-> rb.val])
             ELSE lower_address_adds(c1, addends, offset)

LoadOps == {"load_complex", "uload32_complex", "uload8_complex"}

load_elem_ty(op) ==
    CASE op = "uload8_complex" -> "I8"
      [] op = "uload32_complex" -> "I32"
      [] op = "load_complex" -> "I64"

load_inst(op) ==
    CASE op = "uload8_complex" -> "ULoad8"
      [] op = "uload32_complex" -> "ULoad32"
      [] op = "load_complex" -> "ULoad64"

ldst_offset(data) == data.offset

\* The opcodes of lower_insn_to_regs whose arm is empty but for a TODO.
TodoOps == {"uadd_sat", "sadd_sat", "usub_sat", "ssub_sat", "umulhi", "smulhi",
            "udiv", "sdiv", "urem", "srem",
            "band", "bor", "bxor", "bnot", "band_not", "bor_not", "bxor_not",
            "rotl", "rotr", "ishl", "ushr", "sshr", "bitrev",
            "clz", "cls", "ctz", "popcnt",
            "stack_load", "stack_store", "stack_addr", "global_value",
            "symbol_value", "heap_addr", "table_addr",
            "select", "selectif", "bitselect",
            "is_null", "is_invalid", "trueif", "trueff", "copy",
            "breduce", "bextend", "bint", "bmask", "ireduce", "isplit", "iconcat",
            "icmp", "icmp_imm", "ifcmp", "ifcmp_imm",
            "jump_table_entry", "jump_table_base", "func_addr"}

\* The opcodes whose arm is empty.
NothingOps == {"nop", "debugtrap", "trap", "trapz", "trapnz", "trapif", "trapff",
               "resumable_trap", "safepoint"}

\* panic!("Unused opcode should not be encountered.")
UnusedOps == {"get_pinned_reg", "set_pinned_reg", "spill", "fill", "fill_nop",
              "regmove", "copy_special", "copy_to_ssa", "copy_nop",
              "adjust_sp_down", "adjust_sp_up_imm", "adjust_sp_down_imm",
              "ifcmp_sp", "regspill", "regfill"}

\* panic!("Branch opcode reached non-branch lowering logic!")
BranchOps == {"jump", "fallthrough", "brz", "brnz", "br_icmp", "brif", "brff",
              "indirect_jump_table_br", "br_table"}

\* panic!("Vector ops not implemented.")
VectorOps == {"vconst", "shuffle", "vsplit", "vconcat", "vselect", "vany_true",
              "vall_true", "splat", "insertlane", "extractlane", "bitcast",
              "raw_bitcast", "scalar_to_vector"}

\* panic!("Floating point ops not implemented.")
FloatOps == {"fcmp", "ffcmp", "fadd", "fsub", "fmul", "fdiv", "sqrt", "fma", "fneg",
             "fabs", "fcopysign", "fmin", "fmax", "ceil", "floor", "trunc",
             "nearest", "fpromote", "fdemote", "fcvt_to_uint", "fcvt_to_uint_sat",
             "fcvt_to_sint", "fcvt_to_sint_sat", "fcvt_from_uint", "fcvt_from_sint"}

\* panic!("ALU+imm and ALU+carry ops should not appear here!")
AluImmOps == {"iadd_imm", "imul_imm", "udiv_imm", "sdiv_imm", "urem_imm",
              "srem_imm", "irsub_imm", "iadd_cin", "iadd_ifcin", "iadd_cout",
              "iadd_ifcout", "iadd_carry", "iadd_ifcarry", "isub_bin",
              "isub_ifbin", "isub_bout", "isub_ifbout", "isub_borrow",
              "isub_ifborrow", "band_imm", "bor_imm", "bxor_imm", "rotl_imm",
              "rotr_imm", "ishl_imm", "ushr_imm", "sshr_imm"}

\* panic!("x86-specific opcode in supposedly arch-neutral IR!")
X86Ops == {"x86_udivmodx", "x86_sdivmodx", "x86_umulx", "x86_smulx", "x86_cvtt2si",
           "x86_fmin", "x86_fmax", "x86_push", "x86_pop", "x86_bsr", "x86_bsf",
           "x86_pshufd", "x86_pshufb", "x86_pextr", "x86_pinsr", "x86_insertps",
           "x86_movsd", "x86_movlhps", "x86_psll", "x86_psrl", "x86_psra",
           "x86_ptest", "x86_pmaxs", "x86_pmaxu", "x86_pmins", "x86_pminu"}

\* Every arm empty, as the arms that hold a TODO.
lower_insn_to_regs_all_todo(c, insn) == c

lower_insn_to_regs(c, insn) ==
    LET op == c.f.inst[insn].opcode
        inputs == [i \in 1 .. num_inputs(c, insn) |-> InsnInput(insn, i)]
        outputs == [i \in 1 .. num_outputs(c, insn) |-> InsnOutput(insn, i)]
        ty == output_ty(c, insn, 1)
    IN  CASE op = "iconst" ->
                lower_constant(c, output_to_reg(c, outputs[1]),
                               output_to_const(c, outputs[1])[1])
          [] op \in {"iadd", "isub"} ->
                LET rd == output_to_reg(c, outputs[1])
                    rn == input_to_reg(c, inputs[1], "None")
                    rm == input_to_rse_imm12(rn.ctx, inputs[2], "None")
                    alu_op == IF op = "iadd" THEN choose_32_64(ty, "Add32", "Add64")
                              ELSE choose_32_64(ty, "Sub32", "Sub64")
                IN  emit(rm.ctx, alu_inst_imm12(alu_op, rd, rn.val, rm.val))
          [] op = "imul" ->
                LET rd == output_to_reg(c, outputs[1])
                    rn == input_to_reg(c, inputs[1], "None")
                    rm == input_to_reg(rn.ctx, inputs[2], "None")
                IN  emit(rm.ctx, [op |-> "AluRRRR",
                                  alu_op |-> choose_32_64(ty, "MAdd32", "MAdd64"),
                                  rd |-> rd, rn |-> rn.val, rm |-> rm.val, ra |-> zero_reg])
          [] op \in {"uextend", "sextend"} ->
                LET from_bits == ty_bits(input_ty(c, insn, 1))
                    to_bits == IF ty_bits(ty) < 32 THEN 32 ELSE ty_bits(ty)
                    rn == input_to_reg(c, inputs[1], "None")
                IN  IF ~(from_bits <= to_bits) THEN Panic(c)
                    ELSE IF from_bits < to_bits
                    THEN emit(rn.ctx, MkExtend(output_to_reg(c, outputs[1]), rn.val,
                                               op = "sextend", from_bits, to_bits))
                    ELSE c
          [] op = "ineg" ->
                LET rd == output_to_reg(c, outputs[1])
                    rm == input_to_reg(c, inputs[1], "None")
                IN  emit(rm.ctx, [op |-> "AluRRR",
                                  alu_op |-> choose_32_64(ty, "Sub32", "Sub64"),
                                  rd |-> rd, rn |-> zero_reg, rm |-> rm.val])
          [] op \in TodoOps -> c
          [] op \in NothingOps -> c
          [] op = "fallthrough_return" -> Panic(c)
          [] op \in UnusedOps -> Panic(c)
          [] op \in BranchOps -> Panic(c)
          [] op \in VectorOps \cup FloatOps -> Panic(c)
          [] op \in AluImmOps -> Panic(c)
          [] op \in X86Ops -> Panic(c)
          [] op \in LoadOps ->
                LET mem == lower_address(c, load_elem_ty(op), inputs,
                                         ldst_offset(c.f.inst[insn]))
                IN  emit(mem.ctx, [op |-> load_inst(op),
                                   rd |-> output_to_reg(c, outputs[1]), mem |-> mem.val])

\* Lower::lower's loop body with the ARM64 backend: start_inst, the backend's
\* lower (lower_insn_to_regs), end_inst.
LowerArm64 ==
    /\ Traversing /\ cur_inst = None
    /\ ShouldLower(num_uses[NextInst])
    /\ lowered' = lowered \cup {NextInst}
    /\ LET r == lower_insn_to_regs(start_inst(Ctx, NextInst), NextInst)
       IN  SetCtx(IF r.panicked THEN r ELSE end_inst(r))
    /\ pos' = pos + 1

Arm64Ops == {"iconst", "iadd", "ishl", "uextend"}

\* A load whose address has 1 .. MaxAddends addends (parameters of the
\* block, of any integer width) and a static offset, and a user of the load.
AddendTypes == {"I8", "I32", "I64"}
Offsets == {0, 8, 32760, 70000, -8, -300}

RECURSIVE TypeSeqs(_)
TypeSeqs(n) ==
    IF n = 0 THEN {<<>>}
    ELSE {Append(s, t) : s \in TypeSeqs(n - 1), t \in AddendTypes}

LoadFunction(op, tys, off) ==
    [ptypes |-> <<tys, <<>>>>,
     nfirst |-> 2,
     inst |-> <<MkInst(op, [k \in DOMAIN tys |-> Param(1, k)], U64(0), off, "I64"),
                MkInst("iadd", <<Result(1), Result(1)>>, U64(0), 0, "I64")>>]

InitAddr ==
    \E op \in LoadOps, n \in 1 .. MaxAddends, off \in Offsets :
        \E tys \in TypeSeqs(n) : InitFrom(Lower_new(LoadFunction(op, tys, off)))

\* A 64-bit constant and a user of it.
ConstHalfWords == {0, 65535, 255, 4660}

ConstFunction(v) ==
    [ptypes |-> <<(<<"I64">>), <<>>>>,
     nfirst |-> 2,
     inst |-> <<MkInst("iconst", <<>>, v, 0, "I64"),
                MkInst("iadd", <<Result(1), P1>>, U64(0), 0, "I64")>>]

InitConst ==
    \E v \in ConstHalfWords \X ConstHalfWords \X ConstHalfWords \X ConstHalfWords :
        InitFrom(Lower_new(ConstFunction(v)))

\* A shift by a constant, an add that takes the shift as its second operand
\* and a value or the constant itself as its first, a second add that takes
\* the first and may take the shift as well, and a user of the second.
ShiftAmounts == {3, 63, 64, 5000}

ShiftFunction(m, a, b) ==
    [ptypes |-> <<(<<"I64">>), <<>>>>,
     nfirst |-> 5,
     inst |-> <<MkInst("iconst", <<>>, U64(m), 0, "I64"),
                MkInst("ishl", <<P1, Result(1)>>, U64(0), 0, "I64"),
                MkInst("iadd", <<a, Result(2)>>, U64(0), 0, "I64"),
                MkInst("iadd", <<Result(3), b>>, U64(0), 0, "I64"),
                MkInst("iadd", <<Result(4), Result(4)>>, U64(0), 0, "I64")>>]

InitShift ==
    \E m \in ShiftAmounts, a \in {P1, Result(1)}, b \in {Result(3), Result(2)} :
        InitFrom(Lower_new(ShiftFunction(m, a, b)))

InitArm64 ==
    \/ \E n \in 1 .. NumInsts : InitFunctions(Arm64Ops, n, <<>>)
    \/ InitAddr
    \/ InitConst
    \/ InitShift

NextArm64 ==
    \/ LowerSkip
    \/ LowerArm64

SpecArm64 == InitArm64 /\ [][NextArm64]_vars

(***************************************************************************)
(* Claims about operand folding in the ARM64 backend.                      *)
(***************************************************************************)
\* C4: folding soundness: a producer that the backend folded into a
\* consumer's operand (a pair of folds) is not also lowered to its own machine
\* instruction when the reverse traversal reaches it.
C4_FoldedNotLowered == \A pc \in folds : pc[1] \notin lowered

\* Some producer was folded and then skipped by the traversal.
C4_Witness == \E pc \in folds : pc[1] \in Visited \ lowered

\* C5: the backend folds a producer into a consumer only when the producer is
\* in the consumer's block and its result has a single use overall.
C5_FoldOnlySameBlockSingleUse ==
    \A pc \in folds :
        /\ inst_ebb(f, pc[1]) = inst_ebb(f, pc[2])
        /\ NumUses_compute(f)[pc[1]] = 1

\* Some producer of the consumer's block with a single use was folded.
C5_Witness ==
    \E pc \in folds :
        /\ inst_ebb(f, pc[1]) = inst_ebb(f, pc[2])
        /\ NumUses_compute(f)[pc[1]] = 1
        /\ num_uses[pc[1]] = 0

(***************************************************************************)
(* Claims about address-mode selection and constant materialization.  They *)
(* are stated on the machine instructions recorded in the range of the     *)
(* lowered instruction.                                                    *)
(***************************************************************************)
\* The machine instructions of the range of instruction i.
RangeOf(i) ==
    [k \in 1 .. (inst_indices[i][2] - inst_indices[i][1]) |->
        insts[inst_indices[i][1] + k]]

\* The instructions whose lowering has completed.
Completed == IF panicked THEN {} ELSE lowered \cap Visited

IsAdd(m) == m.op = "AluRRR" /\ m.alu_op = "Add64"

AddendReg(i, k) == value_regs[inst_args(f, i)[k]]

\* The value a constant-materializing machine instruction leaves in its
\* destination: MovZ moves the shifted halfword, MovN its complement, the OR
\* with the zero register the logical immediate, the load the pooled datum.
MaterializedValue(m) ==
    CASE m.op = "MovZ" ->
            [k \in 1 .. 4 |-> IF k = m.imm.shift + 1 THEN m.imm.bits ELSE 0]
      [] m.op = "MovN" ->
            Not64([k \in 1 .. 4 |-> IF k = m.imm.shift + 1 THEN m.imm.bits ELSE 0])
      [] m.op = "AluRRImmLogic" /\ m.alu_op = "Orr64" /\ m.rn = zero_reg -> m.imml
      [] m.op = "ULoad64" /\ m.mem.tag = "Label" -> m.mem.data
      [] OTHER -> <<>>

C9_Case(i) ==
    LET r == RangeOf(i)
        m == r[Len(r)]
        n == Len(inst_args(f, i))
        off == f.inst[i].offset
        adds == SelectSeq(r, IsAdd)
    IN  /\ m.op = load_inst(f.inst[i].opcode)
        /\ m.rd = value_regs[Result(i)]
        /\ (n = 1 /\ reg_maybe_offset(AddendReg(i, 1), off,
                                      load_elem_ty(f.inst[i].opcode)) # None)
              => /\ m.mem = [tag |-> "BaseOffset", reg |-> AddendReg(i, 1), offset |-> off]
                 /\ adds = <<>>
        /\ (n = 2 /\ off = 0)
              => /\ m.mem = [tag |-> "BasePlusReg", ra |-> AddendReg(i, 1),
                             rb |-> AddendReg(i, 2)]
                 /\ adds = <<>>
        /\ n = 3
              => /\ m.mem.tag = "Base"
                 /\ m.mem.reg.tag = "Virtual"
                 /\ m.mem.reg.n >= Lower_new(f).next_vreg
                 /\ r[1].rd = m.mem.reg
                 /\ MaterializedValue(r[1]) = I32ToU64(off)
                 /\ Len(adds) = 3
                 /\ \A k \in 1 .. 3 :
                        /\ adds[k].rd = m.mem.reg
                        /\ adds[k].rn = m.mem.reg
                        /\ adds[k].rm = AddendReg(i, k)

\* C9: a lowered load with one addend and an offset in the addressing
\* immediate range uses base+immediate and no add; with two addends and a
\* zero offset it uses base+index and no add; with three addends the offset
\* is materialized into a fresh temporary, one add per addend accumulates
\* into it, and the load uses the temporary as base register.
C9_AddressModeSelection ==
    \A i \in Completed : f.inst[i].opcode \in LoadOps => C9_Case(i)

\* A load of three addends, one of them narrow, and an offset of -300 has
\* been lowered: the offset is materialized by a MovN.
C9_Witness ==
    \E i \in Completed :
        /\ f.inst[i].opcode \in LoadOps
        /\ Len(inst_args(f, i)) = 3
        /\ f.inst[i].offset = -300
        /\ Len(RangeOf(i)) = 6
        /\ RangeOf(i)[1].op = "MovN"

C10_Case(i) ==
    LET r == RangeOf(i)
        v == f.inst[i].imm
    IN  /\ Len(r) = 1
        /\ r[1].rd = value_regs[Result(i)]
        /\ MaterializedValue(r[1]) = v
        /\ r[1].op =
              IF MoveWideConst_maybe_from_u64(v) # None THEN "MovZ"
              ELSE IF MoveWideConst_maybe_from_u64(Not64(v)) # None THEN "MovN"
              ELSE IF ImmLogic_maybe_from_u64(v) # None THEN "AluRRImmLogic"
              ELSE "ULoad64"

\* C10: a lowered constant is materialized by exactly one machine
\* instruction: MovZ if the value fits the 16-bit shifted immediate, else
\* MovN if its complement fits, else OR of the zero register with a logical
\* immediate if the value fits that encoding, else a load from the constant
\* pool; the instruction leaves the constant's value in its register.
C10_ConstantMaterialization ==
    \A i \in Completed : f.inst[i].opcode = "iconst" => C10_Case(i)

\* A constant that fits both the MovN and the logical immediate forms (and
\* not MovZ) has been lowered.
C10_Witness ==
    \E i \in Completed :
        /\ f.inst[i].opcode = "iconst"
        /\ MoveWideConst_maybe_from_u64(f.inst[i].imm) = None
        /\ MoveWideConst_maybe_from_u64(Not64(f.inst[i].imm)) # None
        /\ ImmLogic_maybe_from_u64(f.inst[i].imm) # None
        /\ RangeOf(i)[1].op = "MovN"

(***************************************************************************)
(* The minimal register allocator.  Its state is the record a: the         *)
(* function (a.ebbs in layout order, each with its parameters and          *)
(* instructions, a.signature, a.types and a.locations indexed by value,    *)
(* a.stack_slots indexed by slot), the cursor a.cur, the register set      *)
(* a.registers of Regs, and the position a.pc of run_minimal_allocator.    *)
(* Values, stack slots and register units are numbers.                     *)
(***************************************************************************)
GPR == 0 .. 3
FLAG == {40}
RegClassOf(rc) == IF rc = "GPR" THEN GPR ELSE FLAG
usable_regs == GPR \cup FLAG

Unassigned == [tag |-> "Unassigned"]
LocReg(r) == [tag |-> "Reg", n |-> r]
LocStack(ss) == [tag |-> "Stack", n |-> ss]

AbiReg(r) == [tag |-> "Reg", n |-> r]
AbiStack == [tag |-> "Stack", n |-> 0]

\* An operand constraint: its kind, its register class, and the fixed
\* register or the number of the tied operand.
Constraint(kind, rc, n) == [kind |-> kind, regclass |-> rc, n |-> n]

fixed_ins(inst) == \E k \in DOMAIN inst.ins : inst.ins[k].kind \in {"FixedReg", "FixedTied"}
fixed_outs(inst) == \E k \in DOMAIN inst.outs : inst.outs[k].kind \in {"FixedReg", "FixedTied"}

AInst(opcode, args, results) ==
    [opcode |-> opcode, args |-> args, results |-> results, nfixed |-> Len(args),
     ins |-> <<>>, outs |-> <<>>, dest |-> 0,
     sig |-> [params |-> <<>>, returns |-> <<>>]]

APanic(a) == [a EXCEPT !.pc = "panicked"]

is_flags(ty) == ty = "iflags"

CurInst(a) == a.ebbs[a.cur.ebb].insts[a.cur.pos]

InsertAt(s, k, x) == SubSeq(s, 1, k - 1) \o <<x>> \o SubSeq(s, k, Len(s))

\* self.cur.ins(): the instruction is inserted before the cursor's position.
Ins(a, inst) ==
    [a EXCEPT !.ebbs[a.cur.ebb].insts = InsertAt(@, a.cur.pos, inst),
              !.cur.pos = @ + 1]

\* A new value of the data flow graph; it is the number Len(a.types) + 1.
make_value(a, ty) ==
    [a EXCEPT !.types = Append(@, ty), !.locations = Append(@, Unassigned)]

make_spill_slot(a) == [a EXCEPT !.stack_slots = Append(@, "SpillSlot")]

\* Regs (lines 78-98).  Taking a register that is not available, or freeing
\* one that is, is recorded in a.misuse.
take_specific(a, rc, r) ==
    [a EXCEPT !.registers = @ \ {r},
              !.misuse = @ \/ r \notin a.registers]

first_avail(a, rc) ==
    CHOOSE r \in a.registers \cap RegClassOf(rc) :
        \A q \in a.registers \cap RegClassOf(rc) : r <= q

take(a, rc) ==
    IF a.registers \cap RegClassOf(rc) = {}
    THEN Ret(APanic(a), 0)
    ELSE Ret([a EXCEPT !.registers = @ \ {first_avail(a, rc)}], first_avail(a, rc))

free(a, rc, r) ==
    [a EXCEPT !.registers = @ \cup {r},
              !.misuse = @ \/ r \in a.registers]

\* fill_temp_register: [ctx, temp, rc, reg].
fill_temp_register(a, val) ==
    LET a1 == make_value(a, a.types[val])
        temp == Len(a1.types)
        a2 == Ins(a1, AInst("fill", <<val>>, <<temp>>))
        t == take(a2, "GPR")
    IN  [ctx |-> [t.ctx EXCEPT !.locations[temp] = LocReg(t.val)],
         temp |-> temp, rc |-> "GPR", reg |-> t.val]

\* spill_register: the spill is inserted at the cursor.
spill_register(a, reg, regname, stackname, vty) ==
    LET a1 == [a EXCEPT !.locations[regname] = LocReg(reg)]
        a2 == Ins(a1, AInst("spill", <<regname>>, <<stackname>>))
        a3 == make_spill_slot(a2)
    IN  [a3 EXCEPT !.locations[stackname] = LocStack(Len(a3.stack_slots))]

\* dfg.replace_result(result, ty): a new value takes the place of result in
\* its defining instruction.
replace_result(a, result, new) ==
    [a EXCEPT !.ebbs =
        [e \in DOMAIN a.ebbs |->
            [a.ebbs[e] EXCEPT !.insts =
                [i \in DOMAIN a.ebbs[e].insts |->
                    [a.ebbs[e].insts[i] EXCEPT !.results =
                        [k \in DOMAIN a.ebbs[e].insts[i].results |->
                            IF a.ebbs[e].insts[i].results[k] = result THEN new
                            ELSE a.ebbs[e].insts[i].results[k]]]]]]]

spill_result_from_register(a, result, reg) ==
    LET a1 == make_value(a, a.types[result])
        new_result == Len(a1.types)
    IN  spill_register(replace_result(a1, result, new_result), reg, new_result,
                       result, a.types[result])

\* The arguments fill_register_args looks at: the fixed ones, or all of them.
ArgsOf(inst, fixed) == IF fixed THEN SubSeq(inst.args, 1, inst.nfixed) ELSE inst.args

\* Lines 228-238 and 150-159: the fixed registers of the constraints are
\* reserved.
RECURSIVE take_fixed(_, _, _)
take_fixed(a, cs, kinds) ==
    IF cs = <<>> THEN a
    ELSE take_fixed(IF Head(cs).kind \in kinds
                    THEN take_specific(a, Head(cs).regclass, Head(cs).n) ELSE a,
                    Tail(cs), kinds)

\* Lines 250-256, the assertion at the head of the loop over the arguments:
\* the argument is on the stack, or is of a flags type.
arg_is_located(a, arg) == a.locations[arg].tag = "Stack" \/ is_flags(a.types[arg])

\* Lines 241-270: a register is assigned to every argument from k on; the
\* result is [ctx, val], val being the vector reg_args.
RECURSIVE assign_input_regs(_, _, _, _)
assign_input_regs(a, fixed, k, reg_args) ==
    LET inst == CurInst(a)
        args == ArgsOf(inst, fixed)
    IN  IF a.pc = "panicked" \/ k > Len(args) THEN Ret(a, reg_args)
        ELSE IF ~arg_is_located(a, args[k])
             THEN Ret([APanic(a) EXCEPT !.unlocated_arg = TRUE], reg_args)
        ELSE IF k > Len(inst.ins) THEN Ret(APanic(a), reg_args)
        ELSE LET c == inst.ins[k] IN
             IF c.kind = "Stack" THEN assign_input_regs(a, fixed, k + 1, reg_args)
             ELSE IF c.kind \in {"FixedReg", "FixedTied"}
             THEN assign_input_regs(a, fixed, k + 1,
                     Append(reg_args, [k |-> k, arg |-> args[k], rc |-> c.regclass,
                                       reg |-> c.n, is_tied |-> c.kind = "FixedTied"]))
             ELSE LET t == take(a, c.regclass) IN
                  assign_input_regs(t.ctx, fixed, k + 1,
                     Append(reg_args, [k |-> k, arg |-> args[k], rc |-> c.regclass,
                                       reg |-> t.val, is_tied |-> c.kind = "Tied"]))

\* Lines 273-289 without the test of line 286: the register of a tied
\* argument is freed with the others.
RECURSIVE insert_fills_free_tied(_, _)
insert_fills_free_tied(a, reg_args) ==
    IF reg_args = <<>> \/ a.pc = "panicked" THEN a
    ELSE LET ra == Head(reg_args)
             a1 == IF is_flags(a.types[ra.arg])
                   THEN [a EXCEPT !.locations[ra.arg] = LocReg(ra.reg)]
                   ELSE LET b1 == make_value(a, a.types[ra.arg])
                            temp == Len(b1.types)
                            b2 == Ins(b1, AInst("fill", <<ra.arg>>, <<temp>>))
                        IN  [b2 EXCEPT !.locations[temp] = LocReg(ra.reg),
                                       !.ebbs[b2.cur.ebb].insts[b2.cur.pos].args[ra.k] = temp]
         IN  insert_fills_free_tied(free(a1, ra.rc, ra.reg), Tail(reg_args))

\* Lines 273-289: the fills are inserted, the instruction's arguments are
\* renamed, the registers that are not tied are freed.
RECURSIVE insert_fills(_, _)
insert_fills(a, reg_args) ==
    IF reg_args = <<>> \/ a.pc = "panicked" THEN a
    ELSE LET ra == Head(reg_args)
             a1 == IF is_flags(a.types[ra.arg])
                   THEN [a EXCEPT !.locations[ra.arg] = LocReg(ra.reg)]
                   ELSE LET b1 == make_value(a, a.types[ra.arg])
                            temp == Len(b1.types)
                            b2 == Ins(b1, AInst("fill", <<ra.arg>>, <<temp>>))
                        IN  [b2 EXCEPT !.locations[temp] = LocReg(ra.reg),
                                       !.ebbs[b2.cur.ebb].insts[b2.cur.pos].args[ra.k] = temp]
             a2 == IF ~ra.is_tied THEN free(a1, ra.rc, ra.reg) ELSE a1
         IN  insert_fills(a2, Tail(reg_args))

\* fill_register_args without the reservation of the fixed registers.
fill_register_args_unreserved(a, fixed) ==
    LET r == assign_input_regs(a, fixed, 1, <<>>)
    IN  Ret(insert_fills(r.ctx, r.val), r.val)

\* fill_register_args: [ctx, val], val being reg_args.
fill_register_args(a, fixed) ==
    LET inst == CurInst(a)
        a1 == IF fixed_ins(inst)
              THEN take_fixed(a, inst.ins, {"FixedReg", "FixedTied"}) ELSE a
        r == assign_input_regs(a1, fixed, 1, <<>>)
    IN  Ret(insert_fills(r.ctx, r.val), r.val)

\* Lines 162-182: a register is assigned to every result from k on.
RECURSIVE assign_output_regs(_, _, _, _)
assign_output_regs(a, reg_args, k, reg_results) ==
    LET inst == CurInst(a) IN
    IF a.pc = "panicked" \/ k > Len(inst.results) THEN Ret(a, reg_results)
    ELSE IF k > Len(inst.outs) THEN Ret(APanic(a), reg_results)
    ELSE LET c == inst.outs[k]
             hits == SelectSeq(reg_args, LAMBDA h : h.k = c.n)
         IN  IF c.kind \in {"FixedReg", "FixedTied"}
             THEN assign_output_regs(a, reg_args, k + 1,
                     Append(reg_results, [result |-> inst.results[k],
                                          rc |-> c.regclass, reg |-> c.n]))
             ELSE IF c.kind = "Tied"
             THEN IF hits = <<>> THEN Ret(APanic(a), reg_results)
                  ELSE assign_output_regs(a, reg_args, k + 1,
                          Append(reg_results, [result |-> inst.results[k],
                                               rc |-> hits[1].rc, reg |-> hits[1].reg]))
             ELSE IF c.kind = "Reg"
             THEN LET t == take(a, c.regclass) IN
                  assign_output_regs(t.ctx, reg_args, k + 1,
                          Append(reg_results, [result |-> inst.results[k],
                                               rc |-> c.regclass, reg |-> t.val]))
             ELSE Ret(APanic(a), reg_results)

\* The same without the spills of line 192: every result stays in its
\* register.
RECURSIVE insert_spills_keep_reg(_, _)
insert_spills_keep_reg(a, reg_results) ==
    IF reg_results = <<>> \/ a.pc = "panicked" THEN a
    ELSE LET rr == Head(reg_results) IN
         insert_spills_keep_reg(
            free([a EXCEPT !.locations[rr.result] = LocReg(rr.reg)], rr.rc, rr.reg),
            Tail(reg_results))

\* Lines 185-197: the cursor is after the instruction; the spills are
\* inserted there, the registers are freed.
RECURSIVE insert_spills(_, _)
insert_spills(a, reg_results) ==
    IF reg_results = <<>> \/ a.pc = "panicked" THEN a
    ELSE LET rr == Head(reg_results)
             a1 == IF is_flags(a.types[rr.result])
                   THEN [a EXCEPT !.locations[rr.result] = LocReg(rr.reg)]
                   ELSE spill_result_from_register(a, rr.result, rr.reg)
         IN  insert_spills(free(a1, rr.rc, rr.reg), Tail(reg_results))

goto_after_inst(a) == [a EXCEPT !.cur.pos = @ + 1]

\* goto_inst(last): the cursor was after the instruction, and after every
\* instruction inserted since: the last of them is the one before it.
goto_last(a) == [a EXCEPT !.cur.pos = @ - 1]

\* spill_register_results without the final goto_inst(last): the cursor stays
\* after the last spill.
spill_register_results_cursor_after(a, reg_args) ==
    LET inst == CurInst(a)
        a1 == IF fixed_outs(inst) THEN take_fixed(a, inst.outs, {"FixedReg"}) ELSE a
        r == assign_output_regs(a1, reg_args, 1, <<>>)
    IN  insert_spills(goto_after_inst(r.ctx), r.val)

\* spill_register_results, the cursor being at the instruction.
spill_register_results(a, reg_args) ==
    LET inst == CurInst(a)
        a1 == IF fixed_outs(inst) THEN take_fixed(a, inst.outs, {"FixedReg"}) ELSE a
        r == assign_output_regs(a1, reg_args, 1, <<>>)
    IN  goto_last(insert_spills(goto_after_inst(r.ctx), r.val))

\* Lines 321-345 without the temporaries of lines 330-338.
RECURSIVE collect_updates_no_temp(_, _, _, _, _)
collect_updates_no_temp(a, target_params, target_slots, k, updates) ==
    IF a.pc = "panicked" \/ k > Len(target_params) \/ k > Len(CurInst(a).args)
    THEN Ret(a, updates)
    ELSE LET arg == CurInst(a).args[k]
             target_arg == target_params[k]
         IN  IF a.locations[arg].n = a.locations[target_arg].n
             THEN collect_updates_no_temp(a, target_params, target_slots, k + 1, updates)
             ELSE collect_updates_no_temp(a, target_params, target_slots, k + 1,
                                          Append(updates, [k |-> k, arg |-> arg,
                                                           target_arg |-> target_arg]))

\* Lines 321-345: the arguments whose slot is also a target slot are copied
\* to a new slot through a register; the result is [ctx, val], val being the
\* vector updates.
RECURSIVE collect_updates(_, _, _, _, _)
collect_updates(a, target_params, target_slots, k, updates) ==
    IF a.pc = "panicked" \/ k > Len(target_params) \/ k > Len(CurInst(a).args)
    THEN Ret(a, updates)
    ELSE LET arg == CurInst(a).args[k]
             target_arg == target_params[k]
             arg_loc == a.locations[arg]
             target_arg_loc == a.locations[target_arg]
         IN  IF ~(arg_loc.tag = "Stack" /\ target_arg_loc.tag = "Stack")
             THEN Ret(APanic(a), updates)
             ELSE IF arg_loc.n = target_arg_loc.n
             THEN collect_updates(a, target_params, target_slots, k + 1, updates)
             ELSE IF \E j \in DOMAIN target_slots : arg_loc.n = target_slots[j]
             THEN LET t == fill_temp_register(a, arg)
                      a1 == make_value(t.ctx, a.types[arg])
                      the_temp == Len(a1.types)
                      a2 == Ins(a1, AInst("spill", <<t.temp>>, <<the_temp>>))
                      a3 == make_spill_slot(a2)
                      a4 == [a3 EXCEPT !.locations[the_temp] = LocStack(Len(a3.stack_slots))]
                  IN  collect_updates(free(a4, t.rc, t.reg), target_params, target_slots,
                                      k + 1,
                                      Append(updates, [k |-> k, arg |-> the_temp,
                                                       target_arg |-> target_arg]))
             ELSE collect_updates(a, target_params, target_slots, k + 1,
                                  Append(updates, [k |-> k, arg |-> arg,
                                                   target_arg |-> target_arg]))

\* Lines 347-353: each argument is copied to its target's slot through a
\* register.
RECURSIVE apply_updates(_, _)
apply_updates(a, updates) ==
    IF updates = <<>> \/ a.pc = "panicked" THEN a
    ELSE LET u == Head(updates)
             t == fill_temp_register(a, u.arg)
             a1 == make_value(t.ctx, a.types[u.arg])
             dest == Len(a1.types)
             a2 == Ins(a1, AInst("spill", <<t.temp>>, <<dest>>))
             a3 == [a2 EXCEPT !.ebbs[a2.cur.ebb].insts[a2.cur.pos].args[u.k] = dest,
                              !.locations[dest] = a2.locations[u.target_arg]]
         IN  apply_updates(free(a3, t.rc, t.reg), Tail(updates))

move_ebb_arguments(a, target) ==
    LET target_params == a.ebbs[target].params IN
    IF \E k \in DOMAIN target_params : a.locations[target_params[k]].tag # "Stack"
    THEN APanic(a)
    ELSE LET target_slots == [k \in DOMAIN target_params |->
                                    a.locations[target_params[k]].n]
             r == collect_updates(a, target_params, target_slots, 1, <<>>)
         IN  apply_updates(r.ctx, r.val)

\* make_abi_info: the values zipped with their ABI locations.
make_abi_info(vals, abi) ==
    [k \in 1 .. (IF Len(vals) < Len(abi) THEN Len(vals) ELSE Len(abi)) |->
        [val |-> vals[k], abi |-> abi[k]]]

\* The call without the reservation of lines 374-380.
take_variable_abi_registers_none(a, abi_info) == a

RECURSIVE take_variable_abi_registers(_, _)
take_variable_abi_registers(a, abi_info) ==
    IF abi_info = <<>> THEN a
    ELSE take_variable_abi_registers(
            IF Head(abi_info).abi.tag = "Reg"
            THEN take_specific(a, "GPR", Head(abi_info).abi.n) ELSE a,
            Tail(abi_info))

\* The same without the frees of lines 388-394.
keep_variable_abi_registers(a, abi_info) == a

RECURSIVE free_variable_abi_registers(_, _)
free_variable_abi_registers(a, abi_info) ==
    IF abi_info = <<>> THEN a
    ELSE free_variable_abi_registers(
            IF Head(abi_info).abi.tag = "Reg"
            THEN free(a, "GPR", Head(abi_info).abi.n) ELSE a,
            Tail(abi_info))

\* load_variable_abi_registers: the k-th variable argument is filled into its
\* ABI register.
RECURSIVE load_variable_abi_registers(_, _, _)
load_variable_abi_registers(a, abi_info, k) ==
    IF k > Len(abi_info) THEN a
    ELSE IF abi_info[k].abi.tag = "Reg"
    THEN LET a1 == make_value(a, a.types[abi_info[k].val])
             temp == Len(a1.types)
             a2 == Ins(a1, AInst("fill", <<abi_info[k].val>>, <<temp>>))
             nf == CurInst(a2).nfixed
         IN  load_variable_abi_registers(
                [a2 EXCEPT !.locations[temp] = LocReg(abi_info[k].abi.n),
                           !.ebbs[a2.cur.ebb].insts[a2.cur.pos].args[nf + k] = temp],
                abi_info, k + 1)
    ELSE load_variable_abi_registers(a, abi_info, k + 1)

\* store_variable_abi_registers, the cursor being after the call.
RECURSIVE store_variable_abi_registers(_, _)
store_variable_abi_registers(a, abi_info) ==
    IF abi_info = <<>> THEN a
    ELSE store_variable_abi_registers(
            IF Head(abi_info).abi.tag = "Reg"
            THEN spill_result_from_register(a, Head(abi_info).val, Head(abi_info).abi.n)
            ELSE a,
            Tail(abi_info))

Terminators == {"br_table", "fallthrough", "fallthrough_return",
                "indirect_jump_table_br", "jump", "return", "trap"}
Branches == {"br_icmp", "brff", "brif", "brnz", "brz"}
Calls == {"call", "call_indirect"}

visit_branch(a) == fill_register_args(a, TRUE).ctx

visit_terminator(a, opcode) ==
    CASE opcode \in {"return", "fallthrough_return"} ->
            load_variable_abi_registers(
                a, make_abi_info(CurInst(a).args, a.signature.returns), 1)
      [] opcode = "indirect_jump_table_br" -> fill_register_args(a, TRUE).ctx
      [] opcode = "jump" -> move_ebb_arguments(a, CurInst(a).dest)
      [] opcode = "trap" -> a
      [] OTHER -> APanic(a)

\* visit_copy without the rewriting of the instruction.
visit_copy_location_only(a) ==
    LET arg == CurInst(a).args[1]
        dest == CurInst(a).results[1]
    IN  [a EXCEPT !.locations[dest] = a.locations[arg]]

visit_copy(a) ==
    LET arg == CurInst(a).args[1]
        dest == CurInst(a).results[1]
    IN  [a EXCEPT !.locations[dest] = a.locations[arg],
                  !.ebbs[a.cur.ebb].insts[a.cur.pos].opcode = "copy_nop"]

visit_call(a) ==
    LET inst == CurInst(a)
        arg_info == make_abi_info(SubSeq(inst.args, inst.nfixed + 1, Len(inst.args)),
                                  inst.sig.params)
        a1 == load_variable_abi_registers(a, arg_info, 1)
        a2 == take_variable_abi_registers(a1, arg_info)
        a3 == fill_register_args(a2, TRUE).ctx
        a4 == free_variable_abi_registers(a3, arg_info)
        result_info == make_abi_info(CurInst(a4).results, inst.sig.returns)
    IN  IF a3.pc = "panicked" THEN a3
        ELSE goto_last(store_variable_abi_registers(goto_after_inst(a4), result_info))

is_spill_to_outgoing_arg(a) ==
    LET result == CurInst(a).results[1] IN
    /\ a.locations[result].tag = "Stack"
    /\ a.stack_slots[a.locations[result].n] = "OutgoingArg"

visit_outgoing_arg_spill(a) ==
    LET t == fill_temp_register(a, CurInst(a).args[1])
        a1 == [t.ctx EXCEPT !.ebbs[t.ctx.cur.ebb].insts[t.ctx.cur.pos].args[1] = t.temp]
    IN  free(a1, t.rc, t.reg)

replace_ebb_param(a, param, new) ==
    [a EXCEPT !.ebbs =
        [e \in DOMAIN a.ebbs |->
            [a.ebbs[e] EXCEPT !.params =
                [k \in DOMAIN a.ebbs[e].params |->
                    IF a.ebbs[e].params[k] = param THEN new ELSE a.ebbs[e].params[k]]]]]

\* The entry block without the spills of its register parameters.
spill_entry_params_none(a, signature_info) == a

\* visit_entry_block, from the k-th parameter of the signature on.
RECURSIVE spill_entry_params(_, _)
spill_entry_params(a, signature_info) ==
    IF signature_info = <<>> \/ a.pc = "panicked" THEN a
    ELSE LET param == Head(signature_info).val
             abi == Head(signature_info).abi
         IN  IF abi.tag = "Reg"
             THEN LET a1 == make_value(a, a.types[param])
                      new_param == Len(a1.types)
                  IN  spill_entry_params(
                          spill_register(replace_ebb_param(a1, param, new_param), abi.n,
                                         new_param, param, a.types[param]),
                          Tail(signature_info))
             ELSE IF abi.tag = "Stack"
             THEN spill_entry_params(a, Tail(signature_info))
             ELSE APanic(a)

visit_entry_block(a, entry) ==
    spill_entry_params([a EXCEPT !.cur = [ebb |-> entry, pos |-> 1]],
                       make_abi_info(a.ebbs[entry].params, a.signature.params))

\* visit_other_blocks: a stack slot for every parameter of the blocks after
\* the entry block.
RECURSIVE assign_param_slots(_, _)
assign_param_slots(a, params) ==
    IF params = <<>> THEN a
    ELSE LET a1 == make_spill_slot(a) IN
         assign_param_slots([a1 EXCEPT !.locations[Head(params)] =
                                            LocStack(Len(a1.stack_slots))],
                            Tail(params))

RECURSIVE visit_other_blocks_from(_, _)
visit_other_blocks_from(a, ebb) ==
    IF ebb > Len(a.ebbs) THEN a
    ELSE visit_other_blocks_from(assign_param_slots(a, a.ebbs[ebb].params), ebb + 1)

visit_other_blocks(a) == visit_other_blocks_from(a, 2)

(***************************************************************************)
(* run_minimal_allocator: the entry block, the other blocks, then every    *)
(* instruction of every block.  A plain instruction is visited in two      *)
(* steps, fill_register_args and spill_register_results.                   *)
(***************************************************************************)
AtInst == alloc.pc = "loop" /\ alloc.cur.pos <= Len(alloc.ebbs[alloc.cur.ebb].insts)
Opcode == CurInst(alloc).opcode

\* The visit is over: cur.next_inst().
Visited_(a) == IF a.pc = "panicked" THEN a ELSE [a EXCEPT !.cur.pos = @ + 1]

AllocEntryBlock ==
    /\ alloc.pc = "entry"
    /\ alloc' = [visit_entry_block(alloc, 1) EXCEPT
                    !.pc = IF @ = "panicked" THEN @ ELSE "other"]
    /\ UNCHANGED lowerVars

AllocOtherBlocks ==
    /\ alloc.pc = "other"
    /\ alloc' = [visit_other_blocks(alloc) EXCEPT
                    !.pc = "loop", !.cur = [ebb |-> 1, pos |-> 1]]
    /\ UNCHANGED lowerVars

VisitCopy ==
    /\ AtInst /\ Opcode = "copy"
    /\ alloc' = Visited_(visit_copy(alloc))
    /\ UNCHANGED lowerVars

VisitTerminator ==
    /\ AtInst /\ Opcode \in Terminators
    /\ alloc' = Visited_(visit_terminator(alloc, Opcode))
    /\ UNCHANGED lowerVars

VisitBranch ==
    /\ AtInst /\ Opcode \in Branches
    /\ alloc' = Visited_(visit_branch(alloc))
    /\ UNCHANGED lowerVars

VisitCall ==
    /\ AtInst /\ Opcode \in Calls
    /\ alloc' = Visited_(visit_call(alloc))
    /\ UNCHANGED lowerVars

VisitOutgoingArgSpill ==
    /\ AtInst /\ Opcode = "spill" /\ is_spill_to_outgoing_arg(alloc)
    /\ alloc' = Visited_(visit_outgoing_arg_spill(alloc))
    /\ UNCHANGED lowerVars

\* Spills and fills inserted by the allocator are ignored.
VisitSpillFill ==
    /\ AtInst
    /\ \/ Opcode = "spill" /\ ~is_spill_to_outgoing_arg(alloc)
       \/ Opcode = "fill"
    /\ alloc' = Visited_(alloc)
    /\ UNCHANGED lowerVars

IsPlain(op) ==
    op \notin Terminators \cup Branches \cup Calls \cup {"copy", "spill", "fill"}

\* visit_plain_inst, first half: fill_register_args.
VisitPlainFill ==
    /\ AtInst /\ IsPlain(Opcode)
    /\ LET r == fill_register_args(alloc, FALSE) IN
       alloc' = IF r.ctx.pc = "panicked" THEN r.ctx
                ELSE [r.ctx EXCEPT !.pc = "plain_spill", !.reg_args = r.val]
    /\ UNCHANGED lowerVars

\* visit_plain_inst, second half: spill_register_results.
VisitPlainSpill ==
    /\ alloc.pc = "plain_spill"
    /\ LET a1 == spill_register_results(alloc, alloc.reg_args) IN
       alloc' = IF a1.pc = "panicked" THEN a1
                ELSE Visited_([a1 EXCEPT !.pc = "loop", !.reg_args = <<>>])
    /\ UNCHANGED lowerVars

\* The cursor is at the end of the block: the next block, or the end.
AllocNextEbb ==
    /\ alloc.pc = "loop" /\ alloc.cur.pos > Len(alloc.ebbs[alloc.cur.ebb].insts)
    /\ alloc' = IF alloc.cur.ebb < Len(alloc.ebbs)
                THEN [alloc EXCEPT !.cur = [ebb |-> alloc.cur.ebb + 1, pos |-> 1]]
                ELSE [alloc EXCEPT !.pc = "done"]
    /\ UNCHANGED lowerVars

(***************************************************************************)
(* The functions the allocator is run over.  The first family has an entry *)
(* block of BodyLen instructions and a terminator, and a second block that *)
(* the branches go to; the second has two blocks with NumEbbParams         *)
(* parameters each and jumps that pass them, the second jump along a back  *)
(* edge.  Arguments of ABI kind Reg are in rdi (3) and rdx (2), the return *)
(* value is in rax (0), the shift count in rcx (1).                        *)
(***************************************************************************)
BodyLen == 2
NumEbbParams == 2

ParamAbis == {<<x, y>> : x \in {AbiReg(3), AbiStack}, y \in {AbiReg(2), AbiStack}}

WithConstraints(inst, ins, outs) == [inst EXCEPT !.ins = ins, !.outs = outs]

\* The slots of the incoming stack arguments are pre-initialized.
RECURSIVE NewFunction(_, _, _)
NewFunction(a, abis, k) ==
    IF k > Len(abis) THEN a
    ELSE NewFunction(
            IF abis[k].tag = "Stack"
            THEN [a EXCEPT !.types = Append(@, "I64"),
                           !.stack_slots = Append(@, "IncomingArg"),
                           !.locations = Append(@, LocStack(Len(a.stack_slots) + 1)),
                           !.ebbs[1].params = Append(@, Len(a.types) + 1)]
            ELSE [a EXCEPT !.types = Append(@, "I64"),
                           !.locations = Append(@, Unassigned),
                           !.ebbs[1].params = Append(@, Len(a.types) + 1)],
            abis, k + 1)

EmptyFunction(abis) ==
    [ebbs |-> <<[params |-> <<>>, insts |-> <<>>],
                [params |-> <<>>, insts |-> <<AInst("trap", <<>>, <<>>)>>]>>,
     signature |-> [params |-> abis, returns |-> <<>>],
     types |-> <<>>, locations |-> <<>>, stack_slots |-> <<>>,
     registers |-> usable_regs, misuse |-> FALSE, unlocated_arg |-> FALSE,
     cur |-> [ebb |-> 1, pos |-> 1], pc |-> "entry", reg_args |-> <<>>]

IsOutgoing(a, v) ==
    a.locations[v].tag = "Stack" /\ a.stack_slots[a.locations[v].n] = "OutgoingArg"

IntValues(a) == {v \in DOMAIN a.types : a.types[v] = "I64" /\ ~IsOutgoing(a, v)}
FlagValues(a) == {v \in DOMAIN a.types : is_flags(a.types[v])}
OutgoingValues(a) == {v \in DOMAIN a.types : IsOutgoing(a, v)}

Latest(S) == {v \in S : \A w \in S : w <= v}
\* The two most recent values.
Operands(a) == {v \in IntValues(a) : Cardinality({w \in IntValues(a) : w > v}) < 2}

Template(inst, rtypes, outgoing) == [inst |-> inst, rtypes |-> rtypes, outgoing |-> outgoing]

CallSig(params) == [params |-> params, returns |-> <<AbiReg(0)>>]

BodyChoices(a) ==
    LET R == Constraint("Reg", "GPR", 0)
        T == Constraint("Tied", "GPR", 1)
        y == CHOOSE v \in Latest(IntValues(a)) : TRUE
    IN  {Template(WithConstraints(AInst("iconst", <<>>, <<>>), <<>>, <<R>>),
                  <<"I64">>, FALSE),
         Template(AInst("copy", <<y>>, <<>>), <<"I64">>, FALSE),
         Template(AInst("spill", <<y>>, <<>>), <<"I64">>, TRUE),
         Template([WithConstraints(AInst("brnz", <<y>>, <<>>), <<R>>, <<>>)
                      EXCEPT !.dest = 2], <<>>, FALSE),
         Template([AInst("call", <<y>>, <<>>) EXCEPT
                      !.nfixed = 0, !.sig = CallSig(<<AbiReg(3)>>)], <<"I64">>, FALSE)}
        \cup {Template(WithConstraints(AInst("iadd", <<x, y>>, <<>>), <<T, R>>, <<T>>),
                       <<"I64">>, FALSE) : x \in Operands(a)}
        \cup {Template(WithConstraints(AInst("ishl", <<x, y>>, <<>>),
                                       <<T, Constraint("FixedReg", "GPR", 1)>>, <<T>>),
                       <<"I64">>, FALSE) : x \in Operands(a)}
        \cup {Template(WithConstraints(AInst("ifcmp", <<x, y>>, <<>>), <<R, R>>,
                                       <<Constraint("FixedReg", "FLAG", 40)>>),
                       <<"iflags">>, FALSE) : x \in Operands(a)}
        \cup {Template(WithConstraints(AInst("x86_udivmodx", <<x, y, x>>, <<>>),
                                       <<Constraint("FixedTied", "GPR", 0),
                                         Constraint("FixedTied", "GPR", 2), R>>,
                                       <<Constraint("FixedTied", "GPR", 0),
                                         Constraint("FixedTied", "GPR", 2)>>),
                       <<"I64", "I64">>, FALSE) : x \in Operands(a)}
        \cup {Template(WithConstraints(AInst("isplit", <<y>>, <<>>), <<R>>, <<R, R>>),
                       <<"I64", "I64">>, FALSE)}
        \cup {Template([WithConstraints(AInst("call_indirect", <<x, y>>, <<>>), <<R>>, <<>>)
                           EXCEPT !.nfixed = 1, !.sig = CallSig(<<AbiReg(0)>>)],
                       <<"I64">>, FALSE) : x \in Operands(a)}
        \cup {Template([WithConstraints(AInst("brif", <<fl>>, <<>>),
                                        <<Constraint("FixedReg", "FLAG", 40)>>, <<>>)
                           EXCEPT !.dest = 2], <<>>, FALSE) : fl \in Latest(FlagValues(a))}
        \cup {Template([AInst("call", <<y, o>>, <<>>) EXCEPT
                           !.nfixed = 0, !.sig = CallSig(<<AbiReg(3), AbiStack>>)],
                       <<"I64">>, FALSE) : o \in Latest(OutgoingValues(a))}

\* The results of the new instruction are new values; the result of a spill
\* to an outgoing argument has its slot.
RECURSIVE AddResults(_, _, _)
AddResults(a, rtypes, outgoing) ==
    IF rtypes = <<>> THEN a
    ELSE LET e == a.cur.ebb
             n == Len(a.ebbs[e].insts)
             a1 == [a EXCEPT !.types = Append(@, Head(rtypes)),
                             !.ebbs[e].insts[n].results = Append(@, Len(a.types) + 1)]
             a2 == IF outgoing
                   THEN [a1 EXCEPT !.stack_slots = Append(@, "OutgoingArg"),
                                   !.locations = Append(@, LocStack(Len(a.stack_slots) + 1))]
                   ELSE [a1 EXCEPT !.locations = Append(@, Unassigned)]
         IN  AddResults(a2, Tail(rtypes), outgoing)

AddInst(a, t) ==
    AddResults([a EXCEPT !.ebbs[a.cur.ebb].insts = Append(@, t.inst)], t.rtypes, t.outgoing)

TermChoices(a) ==
    LET y == CHOOSE v \in Latest(IntValues(a)) : TRUE IN
    {[inst |-> [AInst("return", <<y>>, <<>>) EXCEPT !.nfixed = 0],
      returns |-> <<AbiReg(0)>>],
     [inst |-> AInst("return", <<>>, <<>>), returns |-> <<>>],
     [inst |-> AInst("trap", <<>>, <<>>), returns |-> <<>>],
     [inst |-> [AInst("fallthrough", <<>>, <<>>) EXCEPT !.dest = 2], returns |-> <<>>],
     [inst |-> WithConstraints(AInst("indirect_jump_table_br", <<y>>, <<>>),
                               <<Constraint("Reg", "GPR", 0)>>, <<>>),
      returns |-> <<>>]}

AddTerminator(a, t) ==
    [a EXCEPT !.ebbs[1].insts = Append(@, t.inst), !.signature.returns = t.returns]

RECURSIVE InitBody(_, _)
InitBody(a, n) ==
    IF n = BodyLen
    THEN \E t \in TermChoices(a) : alloc = AddTerminator(a, t)
    ELSE \E c \in BodyChoices(a) : InitBody(AddInst(a, c), n + 1)

InitAllocBody == \E abis \in ParamAbis : InitBody(NewFunction(EmptyFunction(abis), abis, 1), 0)

\* The values 1 .. NumEbbParams are the parameters of the entry block, all
\* passed on the stack; the next NumEbbParams are those of the second block.
StackAbis == [k \in 1 .. NumEbbParams |-> AbiStack]
Ebb2Params == [k \in 1 .. NumEbbParams |-> NumEbbParams + k]
Jump(target, args) == [AInst("jump", args, <<>>) EXCEPT !.nfixed = 0, !.dest = target]

JumpFunction(args1, body, args2) ==
    LET a == NewFunction(EmptyFunction(StackAbis), StackAbis, 1)
        a1 == [a EXCEPT !.ebbs[1].insts = <<Jump(2, args1)>>,
                        !.ebbs[2].params = Ebb2Params,
                        !.ebbs[2].insts = body \o <<Jump(2, args2)>>,
                        !.types = @ \o [k \in 1 .. NumEbbParams |-> "I64"],
                        !.locations = @ \o [k \in 1 .. NumEbbParams |-> Unassigned]]
    IN  IF body = <<>> THEN a1
        ELSE [a1 EXCEPT !.types = Append(@, "I64"),
                        !.locations = Append(@, Unassigned)]

InitAllocJumps ==
    LET own == (NumEbbParams + 1) .. (2 * NumEbbParams)
        c == 2 * NumEbbParams + 1
    IN  \E args1 \in [1 .. NumEbbParams -> 1 .. NumEbbParams] :
           \/ \E args2 \in [1 .. NumEbbParams -> own \cup {1}] :
                 alloc = JumpFunction(args1, <<>>, args2)
           \/ \E q \in own \cup {1} :
              \E args2 \in [1 .. NumEbbParams -> own \cup {1, c}] :
                 alloc = JumpFunction(args1, <<AInst("copy", <<q>>, <<c>>)>>, args2)

InitAlloc ==
    /\ InitLower(Lower_new(ConstFunction(Zero64)))
    /\ InitAllocBody \/ InitAllocJumps

NextAlloc ==
    \/ AllocEntryBlock
    \/ AllocOtherBlocks
    \/ VisitCopy
    \/ VisitTerminator
    \/ VisitBranch
    \/ VisitCall
    \/ VisitOutgoingArgSpill
    \/ VisitSpillFill
    \/ VisitPlainFill
    \/ VisitPlainSpill
    \/ AllocNextEbb

SpecAlloc == InitAlloc /\ [][NextAlloc]_vars

(***************************************************************************)
(* The fills and spills the allocator inserts are copies between stack     *)
(* slots and registers: they are run over a memory, under the locations    *)
(* the allocator has assigned.                                             *)
(***************************************************************************)
RECURSIVE ExecCopies(_, _, _)
ExecCopies(is, locs, st) ==
    IF is = <<>> THEN st
    ELSE LET i == Head(is)
             src == locs[i.args[1]].n
             dst == locs[i.results[1]].n
         IN  ExecCopies(Tail(is), locs,
                IF i.opcode = "fill"
                THEN [st EXCEPT !.reg[dst] = st.mem[src]]
                ELSE [st EXCEPT !.mem[dst] = st.reg[src]])

\* Every slot holds its own number, every register holds 0.
IdentityMemory(a) ==
    [mem |-> [ss \in DOMAIN a.stack_slots |-> ss], reg |-> [r \in usable_regs |-> 0]]

Min(m, n) == IF m < n THEN m ELSE n

\* A jump is visited, and move_ebb_arguments does not panic.
JumpStep == AtInst /\ Opcode = "jump" /\ alloc'.pc # "panicked"

\* The instructions inserted before the jump by the step.
InsertedByStep ==
    SubSeq(alloc'.ebbs[alloc.cur.ebb].insts, alloc.cur.pos, alloc'.cur.pos - 2)

C6_Step ==
    JumpStep =>
        LET jump == CurInst(alloc)
            params == alloc.ebbs[jump.dest].params
            final == ExecCopies(InsertedByStep, alloc'.locations, IdentityMemory(alloc'))
        IN  /\ \A k \in 1 .. Len(InsertedByStep) :
                    InsertedByStep[k].opcode \in {"fill", "spill"}
            /\ \A k \in 1 .. Min(Len(params), Len(jump.args)) :
                    /\ alloc.locations[jump.args[k]].tag = "Stack"
                    /\ alloc.locations[params[k]].tag = "Stack"
                    /\ final.mem[alloc.locations[params[k]].n]
                            = alloc.locations[jump.args[k]].n

\* C6: when a jump is visited whose arguments and target parameters are all in
\* stack slots, running the fills and spills that move_ebb_arguments inserted
\* leaves in the slot of every target parameter what the slot of the
\* corresponding argument held before them, whatever the assignment of source
\* slots to target slots.
C6_ParallelCopy == [][C6_Step]_vars

\* The copies through a new slot in a block: a spill to a slot that belongs to
\* no block parameter, filled again later.
TempCopies(a, e) ==
    {i \in DOMAIN a.ebbs[e].insts :
        /\ a.ebbs[e].insts[i].opcode = "spill"
        /\ \A b \in DOMAIN a.ebbs : \A k \in DOMAIN a.ebbs[b].params :
                a.locations[a.ebbs[b].params[k]] # a.locations[a.ebbs[e].insts[i].results[1]]
        /\ \E j \in DOMAIN a.ebbs[e].insts :
                /\ j > i
                /\ a.ebbs[e].insts[j].opcode = "fill"
                /\ a.ebbs[e].insts[j].args = a.ebbs[e].insts[i].results}

\* C6 witness: a jump along the back edge has been visited that exchanges two
\* parameters of its block, each through a new slot.
C6_Witness ==
    /\ alloc.pc = "done"
    /\ Cardinality(TempCopies(alloc, 2)) >= 2
    /\ LET insts2 == alloc.ebbs[2].insts IN
        /\ insts2[Len(insts2)].opcode = "jump"
        /\ insts2[Len(insts2)].dest = 2

(***************************************************************************)
(* Locations after the allocator has run.                                  *)
(***************************************************************************)
AllocValues == DOMAIN alloc.types
AllocInsts(e) == alloc.ebbs[e].insts
Uses(v) ==
    UNION {{<<e, q>> : q \in {j \in DOMAIN AllocInsts(e) :
                                \E k \in DOMAIN AllocInsts(e)[j].args :
                                    AllocInsts(e)[j].args[k] = v}} :
           e \in DOMAIN alloc.ebbs}

\* v is the result of a fill, and the only instruction that uses v follows
\* it, with nothing but fills in between.
FilledForConsumer(v) ==
    \E e \in DOMAIN alloc.ebbs : \E p \in DOMAIN AllocInsts(e) :
        /\ AllocInsts(e)[p].opcode = "fill"
        /\ AllocInsts(e)[p].results = <<v>>
        /\ \E q \in DOMAIN AllocInsts(e) :
            /\ q > p
            /\ Uses(v) = {<<e, q>>}
            /\ \A j \in (p + 1) .. (q - 1) : AllocInsts(e)[j].opcode = "fill"

\* v is defined by the instruction at p (p = 0: it is a block parameter), and
\* the only instruction that uses v is a spill that follows it, with nothing
\* but spills in between.
SpilledAfterDef(v) ==
    \E e \in DOMAIN alloc.ebbs : \E p \in 0 .. Len(AllocInsts(e)) :
        /\ IF p = 0 THEN \E k \in DOMAIN alloc.ebbs[e].params : alloc.ebbs[e].params[k] = v
           ELSE /\ AllocInsts(e)[p].opcode # "fill"
                /\ \E k \in DOMAIN AllocInsts(e)[p].results : AllocInsts(e)[p].results[k] = v
        /\ \E q \in DOMAIN AllocInsts(e) :
            /\ q > p
            /\ Uses(v) = {<<e, q>>}
            /\ AllocInsts(e)[q].opcode = "spill"
            /\ \A j \in (p + 1) .. (q - 1) : AllocInsts(e)[j].opcode = "spill"

TransientReg(v) ==
    alloc.locations[v].tag = "Reg" /\ (FilledForConsumer(v) \/ SpilledAfterDef(v))

TiedRegs(reg_args) == {reg_args[k].reg : k \in {j \in DOMAIN reg_args : reg_args[j].is_tied}}

\* C8: between the visits of two instructions every register is available
\* again; no register is taken that is not available and none is freed that
\* is; between the filling of the inputs and the spilling of the outputs of
\* a plain instruction exactly the registers of the tied operands are held.
C8_RegisterBalance ==
    /\ ~alloc.misuse
    /\ alloc.pc \in {"entry", "other", "loop", "done"} => alloc.registers = usable_regs
    /\ alloc.pc = "plain_spill" =>
            usable_regs \ alloc.registers = TiedRegs(alloc.reg_args)

\* C8 witness: the inputs of an instruction with a tied operand and one that
\* is not have been filled, and the tied register alone is held; a call was
\* visited before it.
C8_Witness ==
    /\ alloc.pc = "plain_spill"
    /\ TiedRegs(alloc.reg_args) # {}
    /\ \E k \in DOMAIN alloc.reg_args : ~alloc.reg_args[k].is_tied
    /\ \E j \in 1 .. (alloc.cur.pos - 1) :
            alloc.ebbs[alloc.cur.ebb].insts[j].opcode \in Calls

(***************************************************************************)
(* The backend's two entry points: lower (one instruction) and             *)
(* lower_branch_group (the branches that end a block, with their resolved  *)
(* targets and the fallthrough block).                                     *)
(***************************************************************************)
MaxGroup == 3

lower_condcode(cc) ==
    CASE cc = "Equal" -> "Eq"
      [] cc = "NotEqual" -> "Ne"
      [] cc = "SignedGreaterThanOrEqual" -> "Ge"
      [] cc = "SignedGreaterThan" -> "Gt"
      [] cc = "SignedLessThanOrEqual" -> "Le"
      [] cc = "SignedLessThan" -> "Lt"
      [] cc = "UnsignedGreaterThanOrEqual" -> "Hs"
      [] cc = "UnsignedGreaterThan" -> "Hi"
      [] cc = "UnsignedLessThanOrEqual" -> "Ls"
      [] cc = "UnsignedLessThan" -> "Lo"
      [] cc = "Overflow" -> "Vs"
      [] cc = "NotOverflow" -> "Vc"

inst_condcode(data) == data.cond

BranchTarget_Block(b) == [tag |-> "Block", block |-> b]

CondBr(taken, not_taken, kind) ==
    [op |-> "CondBr", taken |-> taken, not_taken |-> not_taken, kind |-> kind]

\* Lines 1100-1153: the conditional branch op0 of a two-branch group.
lower_cond_branch(c, branches, taken, not_taken) ==
    LET op0 == c.f.inst[branches[1]].opcode IN
    CASE op0 \in {"brz", "brnz"} ->
            LET rt == input_to_reg(c, InsnInput(branches[1], 1), "ZeroExtend")
                kind == [tag |-> IF op0 = "brz" THEN "Zero" ELSE "NotZero", reg |-> rt.val]
            IN  emit(rt.ctx, CondBr(taken, not_taken, kind))
      [] op0 = "br_icmp" ->
            LET cond == lower_condcode(inst_condcode(c.f.inst[branches[1]]))
                rn == input_to_reg(c, InsnInput(branches[1], 1), "SignExtend")
                rm == input_to_reg(rn.ctx, InsnInput(branches[1], 2), "SignExtend")
                ty == input_ty(c, branches[1], 1)
                alu_op == choose_32_64(ty, "SubS32", "SubS64")
                c1 == emit(rm.ctx, [op |-> "AluRRR", alu_op |-> alu_op, rd |-> zero_reg,
                                    rn |-> rn.val, rm |-> rm.val])
            IN  emit(c1, CondBr(taken, not_taken, [tag |-> "Cond", cond |-> cond]))
      [] OTHER -> Panic(c)

\* The same with the assertion of line 1081 left out: a third branch is
\* ignored.
lower_branch_group_first_two(c, branches, targets, fallthrough) ==
    IF Len(branches) >= 2
    THEN lower_cond_branch(c, branches, BranchTarget_Block(targets[1]),
                           BranchTarget_Block(targets[2]))
    ELSE Panic(c)

lower_branch_group(c, branches, targets, fallthrough) ==
    IF ~(Len(branches) <= 2) THEN Panic(c)
    ELSE IF Len(branches) = 2
    THEN LET op1 == c.f.inst[branches[2]].opcode IN
         IF ~(op1 = "jump" \/ op1 = "fallthrough") THEN Panic(c)
         ELSE IF op1 = "fallthrough" /\ fallthrough = None THEN Panic(c)
         ELSE lower_cond_branch(c, branches, BranchTarget_Block(targets[1]),
                                IF op1 = "jump" THEN BranchTarget_Block(targets[2])
                                ELSE BranchTarget_Block(fallthrough[1]))
    ELSE IF ~(Len(branches) = 1) THEN Panic(c)
    ELSE LET op == c.f.inst[branches[1]].opcode IN
         CASE op = "jump" ->
                emit(c, [op |-> "Jump", dest |-> BranchTarget_Block(targets[1])])
           [] op = "fallthrough" ->
                emit(c, [op |-> "Jump", dest |-> BranchTarget_Block(targets[1])])
           [] OTHER -> Panic(c)

\* The backend's lower is called on the next instruction, whatever its
\* use-count: start_inst, lower_insn_to_regs, end_inst.
BackendLower ==
    /\ group = NoGroup
    /\ Traversing /\ cur_inst = None
    /\ lowered' = lowered \cup {NextInst}
    /\ LET r == lower_insn_to_regs(start_inst(Ctx, NextInst), NextInst)
       IN  SetCtx(IF r.panicked THEN r ELSE end_inst(r))
    /\ pos' = pos + 1

\* The backend's lower_branch_group is called on the group, its first branch
\* being the instruction the emitted instructions are recorded for.
LowerBranchGroup ==
    /\ group # NoGroup
    /\ ~panicked /\ cur_inst = None /\ pos = 1
    /\ lowered' = lowered \cup {group.branches[k] : k \in DOMAIN group.branches}
    /\ LET r == lower_branch_group(start_inst(Ctx, group.branches[1]), group.branches,
                                   group.targets, group.fallthrough)
       IN  SetCtx(IF r.panicked THEN r ELSE end_inst(r))
    /\ pos' = Len(LowerOrder(f)) + 1

\* One instruction of any opcode, its operands of any integer width, and a
\* user of its result.
EntryOps ==
    {"iadd", "isub", "imul", "ineg", "fallthrough_return"} \cup TodoOps \cup NothingOps
    \cup UnusedOps \cup BranchOps \cup VectorOps \cup FloatOps \cup AluImmOps \cup X86Ops

EntryFunction(op, t) ==
    [ptypes |-> <<(<<t, t>>), <<>>>>,
     nfirst |-> 2,
     inst |-> <<MkInst(op, <<Param(1, 1), Param(1, 2)>>, U64(0), 0, t),
                MkInst("iadd", <<Result(1), Result(1)>>, U64(0), 0, t)>>]

InitEntry ==
    \E op \in EntryOps, t \in AddendTypes : InitFrom(Lower_new(EntryFunction(op, t)))

\* The branches that may end a block.
CondSample == {"Equal", "SignedLessThan", "UnsignedGreaterThanOrEqual"}

BrInst(o, as, cc) ==
    [opcode |-> o, args |-> as, imm |-> U64(0), offset |-> 0, ty |-> "I64", cond |-> cc]

GroupChoices ==
    {BrInst(o, <<Param(1, 1)>>, "Equal") : o \in {"brz", "brnz", "brif", "brff", "return"}}
    \cup {BrInst(o, <<>>, "Equal") : o \in {"jump", "fallthrough", "trap"}}
    \cup {BrInst("br_icmp", <<Param(1, 1), Param(1, 2)>>, cc) : cc \in CondSample}

\* The k-th branch of the group goes to block 10 + k; the block that follows
\* in the layout, if there is one, is block 20.
GroupOf(s, ft) ==
    [branches |-> [k \in DOMAIN s |-> k],
     targets |-> [k \in DOMAIN s |-> 10 + k],
     fallthrough |-> ft]

RECURSIVE InitGroups(_, _, _, _)
InitGroups(n, t, ft, s) ==
    IF Len(s) = n
    THEN /\ InitLowerCtx(Lower_new([ptypes |-> <<(<<t, t>>), <<>>>>, nfirst |-> n,
                                     inst |-> s]))
         /\ group = GroupOf(s, ft)
         /\ alloc = AllocIdle
    ELSE \E b \in GroupChoices : InitGroups(n, t, ft, Append(s, b))

InitGroup ==
    \E n \in 1 .. MaxGroup, t \in AddendTypes, ft \in {None, Some(20)} :
        InitGroups(n, t, ft, <<>>)

InitBackend == InitEntry \/ InitGroup

NextBackend ==
    \/ BackendLower
    \/ LowerBranchGroup

SpecBackend == InitBackend /\ [][NextBackend]_vars

(***************************************************************************)
(* Claims about the backend's entry points.                                *)
(***************************************************************************)
GroupLowered == group # NoGroup /\ pos > 1
GroupOp(k) == f.inst[group.branches[k]].opcode
CondBrs == {k \in DOMAIN insts : insts[k].op = "CondBr"}

BadShape ==
    \/ Len(group.branches) >= 3
    \/ Len(group.branches) = 2 /\ GroupOp(2) \notin {"jump", "fallthrough"}

\* C11: lower_branch_group on a group of three (or more) branches, or on a
\* group of two whose second is neither a jump nor a fallthrough, panics, and
\* no machine instruction is emitted for any branch of the group.
C11_BadShapeAborts ==
    (GroupLowered /\ BadShape) =>
        /\ panicked
        /\ insts = <<>>
        /\ \A k \in DOMAIN group.branches :
                inst_indices[group.branches[k]][1] = inst_indices[group.branches[k]][2]

\* C11 witness: a group of three branches that begins as a well-formed group
\* of two (a conditional branch and a jump) has been handed over, and the
\* lowering has panicked.
C11_Witness ==
    /\ GroupLowered /\ panicked
    /\ Len(group.branches) = 3
    /\ GroupOp(1) = "brz" /\ GroupOp(2) = "jump"

ConditionalOps == {"brz", "brnz", "br_icmp", "brif", "brff"}

FusedCase ==
    /\ GroupLowered
    /\ Len(group.branches) = 2
    /\ GroupOp(1) \in ConditionalOps
    /\ GroupOp(2) \in {"jump", "fallthrough"}
    /\ GroupOp(2) = "fallthrough" => group.fallthrough # None

\* C12: for a group of one conditional branch followed by a jump or a
\* fallthrough, lower_branch_group emits exactly one CondBr, the last
\* instruction emitted; its taken target is the conditional branch's target
\* and its not-taken target the jump's target, or the fallthrough block.
C12_FusedCondBr ==
    FusedCase =>
        /\ ~panicked
        /\ Cardinality(CondBrs) = 1
        /\ insts # <<>>
        /\ LET br == insts[Len(insts)] IN
            /\ br.op = "CondBr"
            /\ br.taken = BranchTarget_Block(group.targets[1])
            /\ br.not_taken = IF GroupOp(2) = "jump"
                              THEN BranchTarget_Block(group.targets[2])
                              ELSE BranchTarget_Block(group.fallthrough[1])
        /\ inst_indices[group.branches[1]] = <<0, Len(insts)>>

\* C12 witness: a br_icmp followed by a fallthrough has been lowered to a
\* compare and one CondBr to the branch's target and the fallthrough block.
C12_Witness ==
    /\ FusedCase /\ ~panicked
    /\ GroupOp(1) = "br_icmp" /\ GroupOp(2) = "fallthrough"
    /\ Len(insts) >= 2
    /\ insts[Len(insts)].op = "CondBr"
    /\ insts[Len(insts)].not_taken = BranchTarget_Block(20)

\* The opcodes that are legal in the IR and that the backend has no lowering
\* for.
UnsupportedOps == TodoOps \cup VectorOps \cup FloatOps \cup {"fallthrough_return"}

\* C13: when the backend's lower has been called on an instruction of an
\* opcode it does not support, the lowering has aborted.
C13_UnsupportedAborts ==
    group = NoGroup =>
        \A i \in lowered : f.inst[i].opcode \in UnsupportedOps => panicked

\* C13 witness: lower has returned normally for an ishl without emitting
\* anything, while the instruction that uses its result has been lowered.
C13_Witness ==
    /\ group = NoGroup /\ ~panicked /\ cur_inst = None
    /\ \E i \in lowered :
        /\ f.inst[i].opcode = "ishl"
        /\ inst_indices[i][1] = inst_indices[i][2]
        /\ \E j \in lowered : j # i /\ Result(i) \in {inst_args(f, j)[k] : k \in DOMAIN inst_args(f, j)}
                                /\ inst_indices[j][1] < inst_indices[j][2]

C14_Step ==
    (BackendLower /\ f.inst[NextInst].opcode \in X86Ops \cup BranchOps) =>
        /\ panicked'
        /\ insts' = insts
        /\ num_uses' = num_uses

\* C14: a call of the backend's lower on an x86 opcode or on a branch opcode
\* panics, and neither emits a machine instruction nor changes a use-count.
C14_ForeignAndBranchAbort == [][C14_Step]_vars

\* C14 witness: lower was called on an x86 opcode and has panicked; the only
\* machine instruction is the one emitted before, for another instruction.
C14_Witness ==
    /\ group = NoGroup /\ panicked
    /\ \E i \in lowered : f.inst[i].opcode \in X86Ops /\ inst_indices[i] = <<1, 1>>
    /\ Len(insts) = 1

(***************************************************************************)
(* Context::make_phis_explicit (regalloc/alt_alloc.rs).  The context is    *)
(* kept in the variable alloc: the function (ebbs), the virtual registers  *)
(* (value_vreg, ebb_params_vreg, the number of registers pushed), the      *)
(* position of the topological iteration and the copies collected for the  *)
(* block visited last.  incoming is the function as it was handed to the   *)
(* stage; the code does not keep it.                                       *)
(***************************************************************************)
is_branch(op) == op \in Branches \cup {"jump", "fallthrough", "br_table", "indirect_jump_table_br"}
is_terminator(op) == op \in Terminators

\* The instruction formats that carry a destination.
HasDestination(op) == op \in Branches \cup {"jump", "fallthrough", "br_table"}

inst_variable_args(inst) == SubSeq(inst.args, inst.nfixed + 1, Len(inst.args))

\* One virtual register for each parameter of the block.
RECURSIVE alloc_ebb_vregs(_, _, _, _)
alloc_ebb_vregs(a, ebb, k, ebb_vregs) ==
    IF k > Len(a.ebbs[ebb].params)
    THEN [a EXCEPT !.ebb_params_vreg[ebb] = Some(ebb_vregs)]
    ELSE alloc_ebb_vregs([a EXCEPT !.vregs = @ + 1,
                                   !.value_vreg[a.ebbs[ebb].params[k]] = Some(a.vregs)],
                         ebb, k + 1, Append(ebb_vregs, a.vregs))

\* Step 1 with new registers for the parameters at every visit of the block.
phis_ebb_params_realloc(a, ebb) == alloc_ebb_vregs(a, ebb, 1, <<>>)

\* Step 1 of the loop body.
phis_ebb_params(a, ebb) ==
    IF a.ebb_params_vreg[ebb] # None
    THEN IF Len(a.ebb_params_vreg[ebb][1]) = Len(a.ebbs[ebb].params) THEN a ELSE APanic(a)
    ELSE alloc_ebb_vregs(a, ebb, 1, <<>>)

\* A virtual register for every result; a result that has one already is a
\* failed assertion.
RECURSIVE phis_results(_, _, _)
phis_results(a, results, k) ==
    IF k > Len(results) THEN a
    ELSE IF a.value_vreg[results[k]] # None THEN APanic(a)
    ELSE phis_results([a EXCEPT !.vregs = @ + 1, !.value_vreg[results[k]] = Some(a.vregs)],
                      results, k + 1)

\* The rewriting of a branch: its copies are collected and the branch keeps
\* its fixed arguments.
phis_branch(a, ebb, k) ==
    LET inst == a.ebbs[ebb].insts[k]
        target == inst.dest
        a1 == IF a.ebb_params_vreg[target] = None
              THEN alloc_ebb_vregs(a, target, 1, <<>>) ELSE a
        ebb_vregs == a1.ebb_params_vreg[target][1]
        vargs == inst_variable_args(inst)
    IN  IF ~HasDestination(inst.opcode) THEN APanic(a)
        ELSE IF Len(vargs) # Len(ebb_vregs) THEN APanic(a1)
        ELSE IF ~(is_terminator(inst.opcode) \/ Len(vargs) = 0) THEN APanic(a1)
        ELSE IF Len(vargs) = 0 THEN a1
        ELSE IF \E j \in DOMAIN vargs : a1.value_vreg[vargs[j]] = None THEN APanic(a1)
        ELSE [a1 EXCEPT
                !.vreg_copies_to_insert =
                    @ \o [j \in DOMAIN vargs |-> <<a1.value_vreg[vargs[j]][1], ebb_vregs[j]>>],
                !.ebbs[ebb].insts[k].args = SubSeq(inst.args, 1, inst.nfixed)]

\* Step 2 of the loop body, from the k-th instruction of the block on.
RECURSIVE phis_insts(_, _, _)
phis_insts(a, ebb, k) ==
    IF a.pc = "panicked" \/ k > Len(a.ebbs[ebb].insts) THEN a
    ELSE LET inst == a.ebbs[ebb].insts[k]
         IN  IF \E j \in DOMAIN inst.args : a.value_vreg[inst.args[j]] = None THEN APanic(a)
             ELSE LET a1 == phis_results(a, inst.results, 1)
                  IN  IF a1.pc = "panicked" THEN a1
                      ELSE IF is_branch(inst.opcode)
                           THEN phis_insts(phis_branch(a1, ebb, k), ebb, k + 1)
                           ELSE phis_insts(a1, ebb, k + 1)

\* The instruction copy_vreg source_vreg, dest_vreg.
copy_vreg(src, dst) == [src |-> src, dst |-> dst] @@ AInst("copy_vreg", <<>>, <<>>)

\* The loop over the collected copies with the insertion of each copy
\* before the last instruction of the block.
add_vreg_copies_inserting(a, ebb) ==
    LET is == a.ebbs[ebb].insts
        copies == [j \in DOMAIN a.vreg_copies_to_insert |->
                     copy_vreg(a.vreg_copies_to_insert[j][1], a.vreg_copies_to_insert[j][2])]
    IN  [a EXCEPT !.ebbs[ebb].insts =
            SubSeq(is, 1, Len(is) - 1) \o copies \o SubSeq(is, Len(is), Len(is))]

\* "Actually add the vreg copies": the loop over the collected copies logs
\* each of them; the insertion (self.cur.ins().copy_vreg) is commented out.
add_vreg_copies(a, ebb) == a

\* One iteration of the loop over the blocks.
phis_visit_ebb(a, ebb) ==
    LET a1 == phis_ebb_params(a, ebb)
        a2 == IF a1.pc = "panicked" THEN a1
              ELSE phis_insts([a1 EXCEPT !.vreg_copies_to_insert = <<>>], ebb, 1)
    IN  IF a2.pc = "panicked" THEN a2 ELSE add_vreg_copies(a2, ebb)

\* The last loop: swap_remove_ebb_param for every parameter of every block.
remove_ebb_params(a) ==
    [a EXCEPT !.ebbs = [e \in DOMAIN a.ebbs |-> [a.ebbs[e] EXCEPT !.params = <<>>]]]

\* The topological order of the blocks: in the functions of InitPhis the
\* layout order respects dominance, and the order is the layout order.
PhisVisitEbb ==
    /\ alloc.pc = "phis"
    /\ alloc.topo <= Len(alloc.ebbs)
    /\ alloc' = [phis_visit_ebb(alloc, alloc.topo) EXCEPT !.topo = @ + 1]
    /\ UNCHANGED lowerVars

PhisRemoveParams ==
    /\ alloc.pc = "phis"
    /\ alloc.topo > Len(alloc.ebbs)
    /\ alloc' = [remove_ebb_params(alloc) EXCEPT !.pc = "explicit"]
    /\ UNCHANGED lowerVars

\* The functions, as branch splitting leaves them: three blocks; the first
\* ends with an optional conditional branch to the third and a jump to the
\* second, which ends with a jump to itself or a return.  The second block
\* has m parameters and every jump to it passes m arguments; the third has
\* none.
PhisContext(ebbs, nvalues) ==
    [pc |-> "phis", ebbs |-> ebbs, incoming |-> ebbs, topo |-> 1, vregs |-> 0,
     value_vreg |-> [v \in 1 .. nvalues |-> None],
     ebb_params_vreg |-> [e \in DOMAIN ebbs |-> None],
     vreg_copies_to_insert |-> <<>>]

Brnz(c, target) == [AInst("brnz", <<c>>, <<>>) EXCEPT !.dest = target]

PhisFunction(m, body, br, args1, last) ==
    <<[params |-> [k \in 1 .. NumEbbParams |-> k],
       insts |-> body \o br \o <<Jump(2, args1)>>],
      [params |-> [k \in 1 .. m |-> NumEbbParams + k],
       insts |-> <<last>>],
      [params |-> <<>>,
       insts |-> <<AInst("trap", <<>>, <<>>)>>]>>

InitPhis ==
    LET c == 2 * NumEbbParams + 1
        own(m) == (NumEbbParams + 1) .. (NumEbbParams + m)
    IN  /\ InitLower(Lower_new(ConstFunction(Zero64)))
        /\ \E m \in 0 .. NumEbbParams :
           \E body \in {<<>>, <<AInst("iadd", <<1, 1>>, <<c>>)>>} :
           \E args1 \in [1 .. m -> 1 .. NumEbbParams \cup {v \in {c} : body # <<>>}] :
           \E br \in {<<>>, <<Brnz(1, 3)>>,
                      <<AInst("indirect_jump_table_br", <<1>>, <<>>)>>} :
           \E last \in {AInst("return", <<>>, <<>>)}
                       \cup {Jump(2, args2) : args2 \in [1 .. m -> own(m) \cup {1}]} :
              alloc = PhisContext(PhisFunction(m, body, br, args1, last), c)

NextPhis == PhisVisitEbb \/ PhisRemoveParams

SpecPhis == InitPhis /\ [][NextPhis]_vars

(***************************************************************************)
(* C15.  After make_phis_explicit, for every branch that carried n block   *)
(* arguments, the block holds n copy instructions (from the virtual        *)
(* register of the argument to the virtual register of the target's        *)
(* parameter) before the branch, the branch keeps its fixed arguments      *)
(* only, and no block has a parameter left.                                *)
(***************************************************************************)
PhisDone == alloc.pc = "explicit"

\* The branches of block e that pass block arguments, in the function as
\* it came in.
PassingBranches(e) ==
    {k \in DOMAIN alloc.incoming[e].insts :
        /\ is_branch(alloc.incoming[e].insts[k].opcode)
        /\ inst_variable_args(alloc.incoming[e].insts[k]) # <<>>}

\* The branch is the last instruction of its block, before and after.
CopiesBefore(e, k) ==
    LET old == alloc.incoming[e].insts[k]
        vargs == inst_variable_args(old)
        n == Len(vargs)
        is == alloc.ebbs[e].insts
    IN  /\ Len(is) = Len(alloc.incoming[e].insts) + n
        /\ \A j \in 1 .. n :
              is[k - 1 + j] = copy_vreg(alloc.value_vreg[vargs[j]][1],
                                        alloc.ebb_params_vreg[old.dest][1][j])
        /\ is[k + n] = [old EXCEPT !.args = SubSeq(old.args, 1, old.nfixed)]

NoEbbParams == \A e \in DOMAIN alloc.ebbs : alloc.ebbs[e].params = <<>>

C15_PhisExplicit ==
    PhisDone =>
        /\ \A e \in DOMAIN alloc.ebbs : \A k \in PassingBranches(e) : CopiesBefore(e, k)
        /\ NoEbbParams

C15_Witness ==
    /\ PhisDone
    /\ \E e \in DOMAIN alloc.ebbs : PassingBranches(e) # {}
    /\ NoEbbParams
    /\ \A e \in DOMAIN alloc.ebbs : \A k \in PassingBranches(e) :
          /\ alloc.ebbs[e].insts[k].args = <<>>
          /\ Len(alloc.ebbs[e].insts) = Len(alloc.incoming[e].insts)

(***************************************************************************)
(* C16.  Lower::lower goes through the blocks in reverse layout order and  *)
(* through the instructions of a block in reverse; an instruction whose    *)
(* use-count is not zero when the traversal reaches it is passed to the    *)
(* backend, once; hence the turn of every consumer of a block (its         *)
(* lowering, with its folds and decrements) is over before a producer      *)
(* that precedes it in the block is considered.                            *)
(***************************************************************************)
EbbIndex(e) == CHOOSE n \in DOMAIN layout_ebbs(f) : layout_ebbs(f)[n] = e
InstIndex(i) ==
    CHOOSE k \in DOMAIN ebb_insts(f, inst_ebb(f, i)) : ebb_insts(f, inst_ebb(f, i))[k] = i

\* The place of every instruction in the program: the index of its block in
\* the layout and its index in the block.
ProgramOrder == [i \in Insts |-> <<EbbIndex(inst_ebb(f, i)), InstIndex(i)>>]

\* i comes before j in the program, o being the program order.
ProgramBefore(o, i, j) ==
    \/ o[i][1] < o[j][1]
    \/ o[i][1] = o[j][1] /\ o[i][2] < o[j][2]

\* The instructions the traversal has reached, v being those whose turn is
\* over: these and the one in the hands of the backend.
ReachedWith(v) == v \cup {i \in Insts : cur_inst = Some(i)}

\* Every instruction after i in the program is in v.
AllLaterIn(o, i, v) == \A j \in Insts : ProgramBefore(o, i, j) => j \in v

\* j uses a result of i, which precedes it in the same block.
ConsumerInBlock(o, i, j) ==
    /\ o[i][1] = o[j][1]
    /\ ProgramBefore(o, i, j)
    /\ \E k \in DOMAIN inst_args(f, j) : inst_args(f, j)[k] = Result(i)

C16_Order ==
    LET v == Visited
        r == ReachedWith(v)
        o == ProgramOrder
    IN  /\ lowered \subseteq r
        /\ \A i \in r : AllLaterIn(o, i, v)
        /\ \A i \in r : \A j \in Insts : ConsumerInBlock(o, i, j) => j \in v

C16_Step ==
    LET v == Visited
        w == Visited'
        o == ProgramOrder
    IN  /\ lowered' # lowered =>
              \E i \in Insts \ lowered :
                 /\ lowered' = lowered \cup {i}
                 /\ num_uses[i] > 0
                 /\ cur_inst = None /\ cur_inst' = Some(i)
                 /\ i \notin v
                 /\ AllLaterIn(o, i, v)
        /\ w # v =>
              \E i \in Insts \ v :
                 /\ w = v \cup {i}
                 /\ AllLaterIn(o, i, v)
                 /\ cur_inst' = None
                 /\ i \in lowered' <=> cur_inst = Some(i)
                 /\ cur_inst = None => num_uses[i] = 0

C16_ReverseTraversal == [](C16_Order) /\ [][C16_Step]_vars

C16_Witness ==
    /\ ~panicked /\ pos > Len(LowerOrder(f))
    /\ Len(layout_ebbs(f)) = 2
    /\ \E i \in lowered : \E j \in lowered : ConsumerInBlock(ProgramOrder, i, j)
    /\ Insts \ lowered # {}

(***************************************************************************)
(* C17.  In the minimal allocator a definition has its location before a   *)
(* use of it is processed: every argument fill_register_args examines has  *)
(* a stack slot, or is of a flags type; the assertion at the head of its   *)
(* loop never fails.                                                       *)
(***************************************************************************)
\* The arguments the visit of the instruction under the cursor hands to
\* fill_register_args.
ExaminedArgs ==
    IF ~AtInst THEN <<>>
    ELSE IF IsPlain(Opcode) THEN ArgsOf(CurInst(alloc), FALSE)
    ELSE IF Opcode \in Branches \cup Calls \cup {"indirect_jump_table_br"}
         THEN ArgsOf(CurInst(alloc), TRUE)
    ELSE <<>>

TiedOuts(inst) == {k \in DOMAIN inst.outs : inst.outs[k].kind = "Tied"}

\* The entry of reg_args for input n.
RegArgOf(reg_args, n) == reg_args[CHOOSE j \in DOMAIN reg_args : reg_args[j].k = n]

\* Between the two halves of visit_plain_inst.
TiedHeld ==
    alloc.pc = "plain_spill" =>
        \A k \in DOMAIN alloc.reg_args :
            (alloc.reg_args[k].is_tied /\ CurInst(alloc).ins[alloc.reg_args[k].k].kind = "Tied") =>
                /\ alloc.reg_args[k].reg \notin alloc.registers
                /\ alloc.locations[CurInst(alloc).args[alloc.reg_args[k].k]]
                        = LocReg(alloc.reg_args[k].reg)
                /\ \A j \in DOMAIN alloc.reg_args :
                        j # k => alloc.reg_args[j].reg # alloc.reg_args[k].reg

\* The step of spill_register_results.
TiedReused ==
    (alloc.pc = "plain_spill" /\ alloc'.pc # "panicked") =>
        LET e == alloc.cur.ebb
            p == alloc.cur.pos
            old == CurInst(alloc)
            new == alloc'.ebbs[e].insts[p]
        IN  \A k \in TiedOuts(old) :
               LET reg == RegArgOf(alloc.reg_args, old.outs[k].n).reg IN
               /\ alloc'.locations[new.results[k]] = LocReg(reg)
               /\ \A j \in DOMAIN new.results :
                     j # k => alloc'.locations[new.results[j]] # LocReg(reg)
               /\ \E q \in (p + 1) .. Len(alloc'.ebbs[e].insts) :
                     LET spill == alloc'.ebbs[e].insts[q] IN
                     /\ spill.opcode = "spill"
                     /\ spill.args = <<new.results[k]>>
                     /\ spill.results = <<old.results[k]>>
                     /\ alloc'.locations[old.results[k]].tag = "Stack"
               /\ reg \notin alloc.registers
               /\ reg \in alloc'.registers
               /\ ~alloc'.misuse

C18_TiedRegisterReuse == [](TiedHeld) /\ [][TiedReused]_vars

\* An instruction whose output is tied to its first input, with a second
\* input in a register of its own, has been visited.
C18_Witness ==
    /\ alloc.pc = "loop" /\ alloc.cur.pos > 2
    /\ LET inst == AllocInsts(alloc.cur.ebb)[alloc.cur.pos - 2] IN
       /\ TiedOuts(inst) # {}
       /\ Len(inst.args) = 2 /\ Len(inst.results) = 1
       /\ alloc.locations[inst.args[1]].tag = "Reg"
       /\ alloc.locations[inst.args[2]].tag = "Reg"
       /\ alloc.locations[inst.args[1]] = alloc.locations[inst.results[1]]
       /\ alloc.locations[inst.args[2]] # alloc.locations[inst.args[1]]
       /\ alloc.registers = usable_regs

(***************************************************************************)
(* C19.  The visit of a call.  The registers of the ABI arguments are      *)
(* reserved before the fixed operands are filled: no fixed operand is in   *)
(* a register that holds an ABI argument of the call.  The reserved        *)
(* registers are freed after the fixed operands are filled, and each       *)
(* return value the ABI passes in a register is then spilled to a fresh    *)
(* stack slot by a spill placed after the call.                            *)
(***************************************************************************)
CallStep == AtInst /\ Opcode \in Calls /\ alloc'.pc # "panicked"

\* The variable arguments of the call that the ABI passes in a register.
RegAbiArgs(inst) ==
    {k \in 1 .. (Len(inst.args) - inst.nfixed) :
        k <= Len(inst.sig.params) /\ inst.sig.params[k].tag = "Reg"}

RegAbiResults(inst) ==
    {k \in DOMAIN inst.results :
        k <= Len(inst.sig.returns) /\ inst.sig.returns[k].tag = "Reg"}

C19_Step ==
    CallStep =>
        LET e == alloc.cur.ebb
            p == alloc.cur.pos
            old == CurInst(alloc)
            is == alloc'.ebbs[e].insts
            q == CHOOSE n \in p .. Len(is) :
                    /\ is[n].opcode \in Calls
                    /\ \A r \in p .. (n - 1) : is[r].opcode = "fill"
            new == is[q]
            abi_regs == {old.sig.params[k].n : k \in RegAbiArgs(old)}
        IN  /\ \A k \in RegAbiArgs(old) :
                  alloc'.locations[new.args[old.nfixed + k]] = LocReg(old.sig.params[k].n)
            /\ \A k \in 1 .. old.nfixed :
                  /\ alloc'.locations[new.args[k]].tag = "Reg"
                  /\ alloc'.locations[new.args[k]].n \notin abi_regs
            /\ alloc'.registers = usable_regs
            /\ ~alloc'.misuse
            /\ \A k \in RegAbiResults(old) :
                  /\ alloc'.locations[new.results[k]] = LocReg(old.sig.returns[k].n)
                  /\ \E r \in (q + 1) .. Len(is) :
                        /\ is[r].opcode = "spill"
                        /\ is[r].args = <<new.results[k]>>
                        /\ is[r].results = <<old.results[k]>>
                  /\ alloc'.locations[old.results[k]].tag = "Stack"
                  /\ alloc'.locations[old.results[k]].n > Len(alloc.stack_slots)
                  /\ alloc'.stack_slots[alloc'.locations[old.results[k]].n] = "SpillSlot"
                  /\ \A j \in RegAbiResults(old) :
                        j # k => alloc'.locations[old.results[j]] # alloc'.locations[old.results[k]]

C19_CallAbiRegisters == [][C19_Step]_vars

\* A call with a fixed operand, an argument in the first register of the
\* class and a result in a register has been visited.
C19_Witness ==
    /\ alloc.pc = "loop"
    /\ \E q \in 1 .. (alloc.cur.pos - 2) :
          LET call == AllocInsts(alloc.cur.ebb)[q] IN
          /\ call.opcode = "call_indirect"
          /\ call.nfixed = 1
          /\ RegAbiArgs(call) # {} /\ RegAbiResults(call) # {}
          /\ alloc.locations[call.args[2]] = LocReg(first_avail(alloc, "GPR"))
          /\ alloc.locations[call.args[1]].tag = "Reg"
          /\ AllocInsts(alloc.cur.ebb)[q + 1].opcode = "spill"
          /\ alloc.registers = usable_regs

(***************************************************************************)
(* C20.  The ranges of emitted instructions.  The range (start, end)       *)
(* recorded for an instruction passed to the backend covers exactly the    *)
(* machine instructions emit appended while that instruction was being     *)
(* lowered, in the order of their emission; always start <= end <= the     *)
(* length of the buffer; the ranges of two lowered instructions do not     *)
(* overlap; a machine instruction, once emitted, is never removed or       *)
(* moved.                                                                  *)
(***************************************************************************)
RangeStart(i) == inst_indices[i][1]
RangeEnd(i) == inst_indices[i][2]

\* The machine instruction at index k (from 1) is in the range of i.
InRange(k, i) == RangeStart(i) < k /\ k <= RangeEnd(i)

RangesInBuffer ==
    \A i \in Insts : RangeStart(i) <= RangeEnd(i) /\ RangeEnd(i) <= Len(insts)

RangesDisjoint ==
    \A i \in Insts : \A j \in Insts \ {i} :
        RangeEnd(i) <= RangeStart(j) \/ RangeEnd(j) <= RangeStart(i)

\* Every machine instruction of the buffer is in the range of a lowered
\* instruction, and of one only.
RangesCover ==
    \A k \in 1 .. Len(insts) :
        /\ \E i \in lowered : InRange(k, i)
        /\ \A i \in Insts : \A j \in Insts : (InRange(k, i) /\ InRange(k, j)) => i = j

\* The instruction in the hands of the backend during the step: the one
\* start_inst was called for, or the one the step calls it for.
BeingLowered(i) ==
    \/ cur_inst = Some(i)
    \/ cur_inst = None /\ Traversing /\ i = NextInst /\ i \in lowered'

C20_Step ==
    /\ Len(insts') >= Len(insts)
    /\ SubSeq(insts', 1, Len(insts)) = insts
    /\ \A i \in Insts :
          inst_indices'[i] # inst_indices[i] => BeingLowered(i)
    /\ \A i \in Insts :
          (BeingLowered(i) /\ (insts' # insts \/ cur_inst = None)) =>
              inst_indices'[i] =
                  <<IF cur_inst = None THEN Len(insts) ELSE RangeStart(i), Len(insts')>>
    /\ insts' # insts => \E i \in Insts : BeingLowered(i)

C20_EmittedRanges ==
    [](RangesInBuffer /\ RangesDisjoint /\ RangesCover) /\ [][C20_Step]_vars

\* Two instructions have been lowered one after the other, each to a machine
\* instruction at least, and the buffer ends with those of the second; a
\* third was skipped.
C20_Witness ==
    /\ ~panicked /\ cur_inst = None
    /\ \E i \in lowered : \E j \in lowered \ {i} :
          /\ RangeEnd(i) - RangeStart(i) >= 1
          /\ RangeEnd(j) - RangeStart(j) >= 1
          /\ RangeEnd(i) = RangeStart(j)
          /\ RangeEnd(j) = Len(insts)
    /\ \E i \in Insts \ lowered : RangeStart(i) = RangeEnd(i)

(***************************************************************************)
(* C21.  The narrowing of an input fetch (input_to_reg).  With the narrow  *)
(* mode None no extend is emitted; with ZeroExtend or SignExtend and an    *)
(* input whose type is narrower than a machine word an extend of that      *)
(* signedness is emitted before the value is used; the register returned   *)
(* is always the virtual register of the input value.  The conditional     *)
(* branches fetch with ZeroExtend (brz, brnz) and SignExtend (br_icmp),    *)
(* the arithmetic instructions with None.                                  *)
(***************************************************************************)
WordBits == 64

ExtendsEmitted == SelectSeq(insts, LAMBDA m : m.op = "Extend")

\* The inputs of instruction i that are narrower than bits.
NarrowInputs(i, bits) ==
    {k \in DOMAIN inst_args(f, i) : ty_bits(value_type(f, inst_args(f, i)[k])) < bits}

\* A conditional branch followed by a jump or a fallthrough has been lowered.
FetchedWithExtend ==
    /\ GroupLowered /\ ~panicked
    /\ Len(group.branches) = 2
    /\ GroupOp(1) \in {"brz", "brnz", "br_icmp"}

\* An arithmetic instruction on two block parameters has been lowered.
FetchedPlain ==
    /\ group = NoGroup /\ ~panicked /\ pos = 3
    /\ f.inst[1].opcode \in {"iadd", "isub", "imul", "ineg"}

\* The extends emitted are those of the inputs narrower than bits, in the
\* order of the inputs, each on the register of its input; they come first,
\* and the instructions after them use the registers of the inputs.
ExtendsAre(bits) ==
    LET i == group.branches[1]
        args == inst_args(f, i)
        narrow == NarrowInputs(i, bits)
        n == Cardinality(narrow)
        use == insts[n + 1]
    IN  /\ Len(ExtendsEmitted) = n
        /\ Len(insts) > n
        /\ \A k \in narrow :
              \E e \in 1 .. n :
                 /\ insts[e].op = "Extend"
                 /\ insts[e].rn = value_regs[args[k]]
                 /\ insts[e].rd = value_regs[args[k]]
                 /\ insts[e].signed = (GroupOp(1) = "br_icmp")
                 /\ insts[e].from_bits = ty_bits(value_type(f, args[k]))
        /\ IF GroupOp(1) = "br_icmp"
           THEN use.rn = value_regs[args[1]] /\ use.rm = value_regs[args[2]]
           ELSE use.kind.reg = value_regs[args[1]]

PlainFetch ==
    /\ ExtendsEmitted = <<>>
    /\ Len(insts) = 2
    /\ IF f.inst[1].opcode = "ineg"
       THEN insts[2].rm = value_regs[Param(1, 1)]
       ELSE insts[2].rn = value_regs[Param(1, 1)]

C21_NarrowingSemantics ==
    /\ FetchedWithExtend => ExtendsAre(WordBits)
    /\ FetchedPlain => PlainFetch

\* brz on a 32-bit value has been lowered to the conditional branch alone.
C21_Witness ==
    /\ FetchedWithExtend
    /\ GroupOp(1) = "brz"
    /\ value_type(f, Param(1, 1)) = "I32"
    /\ Len(insts) = 1
    /\ insts[1].op = "CondBr"
    /\ insts[1].kind.reg = value_regs[Param(1, 1)]

(***************************************************************************)
(* C22.  A fold that fails has no side effect.  When the producer of the   *)
(* operand is a constant outside the 12-bit immediate range (or no valid   *)
(* logical immediate), or a shift whose amount is no constant or is not    *)
(* encodable, the operand is the plain register of the producer's result:  *)
(* no use-count is decremented and no machine instruction is emitted for   *)
(* the operand.  Stated on the step that lowers an iadd whose second       *)
(* operand has such a producer: the step leaves every use-count and the    *)
(* merges alone and appends the one register-register add.                 *)
(***************************************************************************)
\* The producer p is a constant that is no 12-bit immediate.
ConstNotImm12(p) ==
    /\ f.inst[p].opcode = "iconst"
    /\ Imm12_maybe_from_u64(f.inst[p].imm) = None

\* The producer p is a shift whose amount is not a constant, or a constant
\* that is no shift immediate.
ShiftNotFoldable(p) ==
    /\ f.inst[p].opcode = "ishl"
    /\ LET amt == f.inst[p].args[2] IN
          \/ amt.def # "Result"
          \/ f.inst[amt.inst].opcode # "iconst"
          \/ ShiftOpShiftImm_maybe_from_shift(f.inst[amt.inst].imm) = None

\* The step lowers the iadd i whose second operand is the result of p.
LowersAddOf(i, p) ==
    /\ cur_inst = None /\ Traversing /\ i = NextInst /\ i \in lowered'
    /\ f.inst[i].opcode = "iadd"
    /\ f.inst[i].args[2] = Result(p)

C22_Step ==
    \A i \in Insts : \A p \in Insts :
        (LowersAddOf(i, p) /\ (ConstNotImm12(p) \/ ShiftNotFoldable(p))) =>
            /\ ~panicked'
            /\ num_uses' = num_uses
            /\ folds' = folds
            /\ insts' = Append(insts,
                               [op |-> "AluRRR",
                                alu_op |-> choose_32_64(f.inst[i].ty, "Add32", "Add64"),
                                rd |-> value_regs[Result(i)],
                                rn |-> value_regs[f.inst[i].args[1]],
                                rm |-> value_regs[Result(p)]])

\* The logical-immediate form on a constant that is no logical immediate:
\* the context is returned as it was, with the register of the constant.
ImmLogicFallback ==
    \A p \in Insts :
        (f.inst[p].opcode = "iconst" /\ ImmLogic_maybe_from_u64(f.inst[p].imm) = None) =>
            output_to_rse_immlogic(Ctx, InsnOutput(p, 1), "None")
                = Ret(Ctx, RseReg(value_regs[Result(p)]))

C22_FailedFoldNoEffect == [](ImmLogicFallback) /\ [][C22_Step]_vars

\* An add of a value and a shift by a register amount has been lowered to
\* the register-register add, the shift keeping its use-count.
C22_Witness ==
    \E i \in lowered : \E p \in Insts :
        /\ f.inst[i].opcode = "iadd"
        /\ f.inst[i].args[2] = Result(p)
        /\ ShiftNotFoldable(p)
        /\ ~panicked
        /\ num_uses[p] = NumUses_compute(f)[p]
        /\ RangeEnd(i) - RangeStart(i) = 1
        /\ insts[RangeEnd(i)].op = "AluRRR"
        /\ insts[RangeEnd(i)].rm = value_regs[Result(p)]

(***************************************************************************)
(* C23.  A fold that succeeds updates the use-counts of both instructions  *)
(* involved.  When a shift by a constant is folded into a shifted-register *)
(* operand, the use-count of the shift and the use-count of the            *)
(* instruction producing the constant amount are each decremented exactly  *)
(* once, and no other use-count changes.  Stated on the step that lowers   *)
(* an iadd whose second operand is such a shift, and returns.              *)
(***************************************************************************)
\* The producer p is a shift by the constant produced by q, which is a
\* shift immediate.
ShiftByConst(p, q) ==
    /\ f.inst[p].opcode = "ishl"
    /\ f.inst[p].args[2] = Result(q)
    /\ f.inst[q].opcode = "iconst"
    /\ ShiftOpShiftImm_maybe_from_shift(f.inst[q].imm) # None

C23_Step ==
    \A i \in Insts : \A p \in Insts : \A q \in Insts :
        (LowersAddOf(i, p) /\ ShiftByConst(p, q) /\ ~panicked') =>
            /\ num_uses' = [num_uses EXCEPT ![p] = @ - 1, ![q] = @ - 1]
            /\ folds' = folds \cup {<<p, i>>, <<q, i>>}
            /\ insts' = Append(insts,
                               [op |-> "AluRRRShift",
                                alu_op |-> choose_32_64(f.inst[i].ty, "Add32", "Add64"),
                                rd |-> value_regs[Result(i)],
                                rn |-> value_regs[f.inst[i].args[1]],
                                rm |-> value_regs[f.inst[p].args[1]],
                                shiftop |-> <<"LSL", f.inst[q].imm[1]>>])

CopyStep == AtInst /\ Opcode = "copy"

C24_Step ==
    CopyStep =>
        LET e == alloc.cur.ebb
            p == alloc.cur.pos
            old == CurInst(alloc)
            arg == old.args[1]
            dest == old.results[1]
        IN  /\ alloc'.pc = "loop"
            /\ alloc'.locations[dest] = alloc.locations[arg]
            /\ \A v \in DOMAIN alloc.locations :
                  v # dest => alloc'.locations[v] = alloc.locations[v]
            /\ DOMAIN alloc'.locations = DOMAIN alloc.locations
            /\ alloc'.registers = alloc.registers
            /\ ~alloc'.misuse
            /\ alloc'.stack_slots = alloc.stack_slots
            /\ alloc'.ebbs = [alloc.ebbs EXCEPT ![e].insts[p].opcode = "copy_nop"]
            /\ alloc'.ebbs[e].insts[p].args = <<arg>>
            /\ alloc'.ebbs[e].insts[p].results = <<dest>>
            /\ alloc'.cur = [ebb |-> e, pos |-> p + 1]

C24_CopyRewriting == [][C24_Step]_vars

\* A copy of a spilled value has been visited: it is a copy_nop whose result
\* is in the stack slot of its argument, and all registers are free.
C24_Witness ==
    /\ alloc.pc = "loop"
    /\ alloc.registers = usable_regs
    /\ \E p \in 1 .. (alloc.cur.pos - 1) :
          LET i == alloc.ebbs[alloc.cur.ebb].insts[p] IN
          /\ i.opcode = "copy_nop"
          /\ alloc.locations[i.results[1]] = alloc.locations[i.args[1]]
          /\ alloc.locations[i.args[1]].tag = "Stack"

(***************************************************************************)
(* C25.  In the phi-explication stage every SSA value is assigned a        *)
(* virtual register exactly once.  The parameters of a block receive their *)
(* registers when the block is first visited or when it is first the       *)
(* target of a branch, whichever happens first, and the later event reuses *)
(* them; no instruction result is assigned a second register; every input *)
(* of an instruction has a register when the instruction is visited (the   *)
(* two assertions of the loop never fail).                                 *)
(***************************************************************************)
PhisValues ==
    {v \in DOMAIN alloc.value_vreg :
        \E e \in DOMAIN alloc.incoming :
            \/ \E k \in DOMAIN alloc.incoming[e].params : alloc.incoming[e].params[k] = v
            \/ \E n \in DOMAIN alloc.incoming[e].insts :
                  \E k \in DOMAIN alloc.incoming[e].insts[n].results :
                      alloc.incoming[e].insts[n].results[k] = v}

AssignedValues == {v \in DOMAIN alloc.value_vreg : alloc.value_vreg[v] # None}

\* The blocks the loop has visited, and those a visited block branches to.
PhisVisited == 1 .. (alloc.topo - 1)

PhisTargeted ==
    {t \in DOMAIN alloc.incoming :
        \E e \in PhisVisited : \E n \in DOMAIN alloc.incoming[e].insts :
            /\ HasDestination(alloc.incoming[e].insts[n].opcode)
            /\ alloc.incoming[e].insts[n].dest = t}

\* A branch without a destination (indirect_jump_table_br) stops the stage
\* at the match on the branch format.
UnexpectedBranchFormat ==
    \E e \in DOMAIN alloc.incoming : \E n \in DOMAIN alloc.incoming[e].insts :
        /\ is_branch(alloc.incoming[e].insts[n].opcode)
        /\ ~HasDestination(alloc.incoming[e].insts[n].opcode)

C25_Once ==
    (alloc.pc \in {"phis", "explicit"}) =>
        \* one register pushed for each assigned value, no register shared
        /\ alloc.vregs = Cardinality(AssignedValues)
        /\ \A v \in AssignedValues : alloc.value_vreg[v][1] \in 0 .. (alloc.vregs - 1)
        /\ \A v \in AssignedValues : \A w \in AssignedValues :
              alloc.value_vreg[v] = alloc.value_vreg[w] => v = w
        \* the parameters have registers from the first visit or branch on
        /\ \A e \in DOMAIN alloc.incoming :
              /\ alloc.ebb_params_vreg[e] # None <=> e \in PhisVisited \cup PhisTargeted
              /\ alloc.ebb_params_vreg[e] # None =>
                    alloc.ebb_params_vreg[e][1] =
                        [k \in DOMAIN alloc.incoming[e].params |->
                            alloc.value_vreg[alloc.incoming[e].params[k]][1]]
        \* the results of the visited blocks have theirs
        /\ \A e \in PhisVisited : \A n \in DOMAIN alloc.incoming[e].insts :
              \A k \in DOMAIN alloc.incoming[e].insts[n].results :
                  alloc.incoming[e].insts[n].results[k] \in AssignedValues
        /\ alloc.topo > Len(alloc.incoming) => AssignedValues = PhisValues

C25_NoFailedAssertion == alloc.pc = "panicked" => UnexpectedBranchFormat

\* A register, once assigned, is never replaced.
C25_Step ==
    \A v \in AssignedValues :
        alloc'.pc # "panicked" => alloc'.value_vreg[v] = alloc.value_vreg[v]

C25_VregAssignedOnce ==
    [](C25_Once /\ C25_NoFailedAssertion) /\ [][C25_Step]_vars

\* The stage is over for a function whose second block got the registers of
\* its parameters from the jump of the first block and is the target of
\* its own jump too; the result of an instruction has its register.
C25_Witness ==
    /\ alloc.pc = "explicit"
    /\ Len(alloc.incoming[2].params) = NumEbbParams
    /\ alloc.incoming[2].insts[1].opcode = "jump"
    /\ alloc.incoming[1].insts[1].opcode = "iadd"
    /\ alloc.incoming[1].insts[1].results[1] \in AssignedValues
    /\ alloc.vregs = 2 * NumEbbParams + 1

(***************************************************************************)
(* C26.  For a branch group of a single instruction that is a jump, a      *)
(* fallthrough or a trap, lower_branch_group emits exactly one machine     *)
(* instruction, the terminator: a jump to the resolved target of the       *)
(* branch for a jump, a jump to the block that follows (the resolved       *)
(* target of the fallthrough) for a fallthrough, a trap for a trap.        *)
(***************************************************************************)
SingleTerminator ==
    /\ GroupLowered
    /\ Len(group.branches) = 1
    /\ GroupOp(1) \in {"jump", "fallthrough", "trap"}

\* The one machine instruction of the group is a jump to its first target.
OneJumpEmitted ==
    /\ ~panicked
    /\ insts = <<[op |-> "Jump", dest |-> BranchTarget_Block(group.targets[1])]>>
    /\ inst_indices[group.branches[1]] = <<0, 1>>

\* The one machine instruction of the group is a trap.
OneTrapEmitted ==
    /\ ~panicked
    /\ Len(insts) = 1
    /\ insts[1].op \notin {"Jump", "CondBr"}
    /\ inst_indices[group.branches[1]] = <<0, 1>>

C26_JumpOrFallthrough ==
    (SingleTerminator /\ GroupOp(1) \in {"jump", "fallthrough"}) => OneJumpEmitted

C26_SingleTerminator ==
    /\ C26_JumpOrFallthrough
    /\ (SingleTerminator /\ GroupOp(1) = "trap") => OneTrapEmitted

\* lower_branch_group was called on a single trap: the lowering has
\* stopped and the buffer is empty.
C26_Witness ==
    /\ SingleTerminator
    /\ GroupOp(1) = "trap"
    /\ panicked
    /\ insts = <<>>

(***************************************************************************)
(* C27.  Virtual registers are unique.  Lower::new gives distinct virtual  *)
(* registers to distinct SSA values, numbered densely in the order of the  *)
(* first occurrence of the values (block parameters, then the arguments    *)
(* of each instruction, then its results, in program order), and every     *)
(* call of tmp returns a register different from the register of every     *)
(* SSA value and from the register returned by every earlier call.         *)
(***************************************************************************)
\* The values in the order Lower::new meets them.
Occurrences(fn) ==
    Concat([n \in DOMAIN layout_ebbs(fn) |->
        ebb_params(fn, layout_ebbs(fn)[n]) \o
        Concat([k \in DOMAIN ebb_insts(fn, layout_ebbs(fn)[n]) |->
            inst_args(fn, ebb_insts(fn, layout_ebbs(fn)[n])[k]) \o
            inst_results(fn, ebb_insts(fn, layout_ebbs(fn)[n])[k])])])

FirstOccurrence(fn, v) ==
    CHOOSE k \in DOMAIN Occurrences(fn) :
        /\ Occurrences(fn)[k] = v
        /\ \A j \in 1 .. (k - 1) : Occurrences(fn)[j] # v

\* The number of distinct values met before the first occurrence of v.
RankOf(fn, v) ==
    Cardinality({Occurrences(fn)[j] : j \in 1 .. (FirstOccurrence(fn, v) - 1)})

\* The registers handed out by tmp so far.
TmpRegs == {Virtual(n) : n \in Cardinality(ValuesOf(f)) .. (next_vreg - 1)}

C27_Unique ==
    /\ \A v \in ValuesOf(f) : value_regs[v] = Virtual(RankOf(f, v))
    /\ \A v \in ValuesOf(f) : \A w \in ValuesOf(f) :
          value_regs[v] = value_regs[w] => v = w
    /\ {value_regs[v] : v \in ValuesOf(f)}
          = {Virtual(n) : n \in 0 .. (Cardinality(ValuesOf(f)) - 1)}
    /\ next_vreg >= Cardinality(ValuesOf(f))
    \* the register the next call of tmp returns is new
    /\ tmp(Ctx).reg \notin {value_regs[v] : v \in ValuesOf(f)} \cup TmpRegs

\* The registers handed out are never handed out again: a call of tmp
\* returns the register after the last one, and nothing else moves the count.
C27_Step ==
    /\ next_vreg' >= next_vreg
    /\ next_vreg' # next_vreg =>
          /\ cur_inst # None
          /\ next_vreg' = next_vreg + 1
          /\ tmp(Ctx).reg = Virtual(next_vreg)
          /\ TmpRegs' = TmpRegs \cup {tmp(Ctx).reg}
    /\ value_regs' = value_regs

C27_VregsUnique == [](C27_Unique) /\ [][C27_Step]_vars

\* Two temporaries have been taken in a function of two blocks; the parameter
\* of the second block, an argument there, is numbered after the results of
\* the first block.
C27_Witness ==
    /\ Len(layout_ebbs(f)) = 2
    /\ next_vreg = Cardinality(ValuesOf(f)) + 2
    /\ \E i \in Insts : \E k \in DOMAIN inst_args(f, i) :
          /\ inst_args(f, i)[k] = P2
          /\ value_regs[P2].n > value_regs[Result(1)].n
    /\ C27_Unique

(***************************************************************************)
(* C28.  Within one instruction processed by the minimal allocator no      *)
(* physical register is assigned to two different register-class input     *)
(* operands, and none to two different results: the register of a fixed    *)
(* operand is reserved before a free-choice register is taken, and all     *)
(* input registers are taken before any of them is freed.                  *)
(***************************************************************************)
\* The operand positions of the values of s that are in a register.
InRegister(s) == {k \in DOMAIN s : alloc.locations[s[k]].tag = "Reg"}

DistinctRegisters(s) ==
    \A j \in InRegister(s) : \A k \in InRegister(s) :
        j # k => alloc.locations[s[j]].n # alloc.locations[s[k]].n

\* Every instruction of the function, visited or not.
C28_Operands ==
    alloc.pc \in {"loop", "plain_spill"} =>
        \A e \in DOMAIN alloc.ebbs : \A n \in DOMAIN alloc.ebbs[e].insts :
            /\ DistinctRegisters(alloc.ebbs[e].insts[n].args)
            /\ DistinctRegisters(alloc.ebbs[e].insts[n].results)

\* Between the two halves of visit_plain_inst: the registers of reg_args
\* are pairwise different and are those of the operands.
C28_RegArgs ==
    alloc.pc = "plain_spill" =>
        /\ \A j \in DOMAIN alloc.reg_args : \A k \in DOMAIN alloc.reg_args :
              j # k => alloc.reg_args[j].reg # alloc.reg_args[k].reg
        /\ \A j \in DOMAIN alloc.reg_args :
              alloc.locations[CurInst(alloc).args[alloc.reg_args[j].k]]
                  = LocReg(alloc.reg_args[j].reg)
        /\ ~alloc.misuse

\* The step of spill_register_results: every result is in the register of
\* its constraint, or in one taken for it.
C28_Step ==
    (alloc.pc = "plain_spill" /\ alloc'.pc # "panicked") =>
        LET old == CurInst(alloc)
            new == alloc'.ebbs[alloc.cur.ebb].insts[alloc.cur.pos]
        IN  /\ \A k \in DOMAIN new.results : alloc'.locations[new.results[k]].tag = "Reg"
            /\ \A k \in DOMAIN new.results :
                  old.outs[k].kind \in {"FixedReg", "FixedTied"} =>
                      alloc'.locations[new.results[k]].n = old.outs[k].n
            /\ ~alloc'.misuse

C28_NoSharedRegister == [](C28_Operands /\ C28_RegArgs) /\ [][C28_Step]_vars

\* An instruction with two fixed operands and a free one, and one with two
\* free results, have been visited: three input registers, the free one
\* between the fixed ones, and two result registers.
C28_Witness ==
    /\ alloc.pc = "loop"
    /\ \E n \in 1 .. (alloc.cur.pos - 1) :
          LET i == alloc.ebbs[alloc.cur.ebb].insts[n] IN
          /\ i.opcode = "x86_udivmodx"
          /\ [k \in 1 .. 3 |-> alloc.locations[i.args[k]]] = <<LocReg(0), LocReg(2), LocReg(1)>>
    /\ \E n \in 1 .. (alloc.cur.pos - 1) :
          LET i == alloc.ebbs[alloc.cur.ebb].insts[n] IN
          /\ i.opcode = "isplit"
          /\ alloc.locations[i.results[1]].tag = "Reg"
          /\ alloc.locations[i.results[2]].tag = "Reg"
          /\ alloc.locations[i.results[1]] # alloc.locations[i.results[2]]

(***************************************************************************)
(* C29.  One call of lower_address emits at most one extend per addend:    *)
(* an addend narrower than 32 bits is zero-extended exactly once,          *)
(* whichever of the three address forms is chosen, the case of a single    *)
(* addend whose offset does not fit the immediate included; an addend of   *)
(* 32 bits or more is not extended.                                        *)
(***************************************************************************)
LoweredLoads == {i \in lowered : f.inst[i].opcode \in LoadOps /\ (cur_inst # Some(i))}

\* The extends of addend k recorded for the load i.
ExtendsOf(i, k) ==
    {n \in (RangeStart(i) + 1) .. RangeEnd(i) :
        /\ insts[n].op = "Extend"
        /\ insts[n].rn = value_regs[inst_args(f, i)[k]]}

ExtendedOnce(i) ==
    \A k \in DOMAIN inst_args(f, i) :
        Cardinality(ExtendsOf(i, k)) =
            IF ty_bits(value_type(f, inst_args(f, i)[k])) < 32 THEN 1 ELSE 0

\* The address of i has one addend and an offset that is no immediate.
SingleAddendNoImmediate(i) ==
    /\ Len(inst_args(f, i)) = 1
    /\ reg_maybe_offset(value_regs[inst_args(f, i)[1]], ldst_offset(f.inst[i]),
                        load_elem_ty(f.inst[i].opcode)) = None

C29_OneExtendPerAddend ==
    ~panicked => \A i \in LoweredLoads : ExtendedOnce(i)

C29_OtherForms ==
    ~panicked => \A i \in LoweredLoads : ~SingleAddendNoImmediate(i) => ExtendedOnce(i)

\* A load of one 8-bit addend and an offset that is no immediate has been
\* lowered: the addend was extended twice, before the constant and before
\* the add.
C29_Witness ==
    /\ ~panicked
    /\ \E i \in LoweredLoads :
          /\ SingleAddendNoImmediate(i)
          /\ value_type(f, inst_args(f, i)[1]) = "I8"
          /\ Cardinality(ExtendsOf(i, 1)) = 2
          /\ insts[RangeStart(i) + 1].op = "Extend"
          /\ insts[RangeEnd(i) - 2].op = "Extend"
          /\ insts[RangeEnd(i) - 1].op = "AluRRR"

(***************************************************************************)
(* C30.  The minimal allocator pass terminates, and it handles every       *)
(* instruction of the original function exactly once: the fills and        *)
(* spills it inserts before and after an instruction are never given fills *)
(* or spills themselves (the cursor is left on the last inserted spill),   *)
(* and a spill or fill met later, such as the spill of a parameter of the  *)
(* entry block, is ignored unless it spills to an outgoing-argument slot.  *)
(* The pass is sequential: a step that can be taken is taken.  The         *)
(* fairness below is WF_vars(NextAlloc) written out by the definition of   *)
(* weak fairness, []<>~ENABLED <<A>>_v \/ []<><<A>>_v: the pass has a step  *)
(* to take exactly until it has ended (AllocProgress), and every step of a *)
(* behaviour is a step of NextAlloc.                                       *)
(***************************************************************************)
AllocEnded == alloc.pc \in {"done", "panicked"}

SpecAllocFair ==
    InitAlloc /\ [][NextAlloc]_vars /\ ([]<>AllocEnded \/ []<><<TRUE>>_vars)

\* Before the pass has ended, its step does not leave the state as it is:
\* the stage, the block or the cursor moves on.
AllocProgress ==
    ~AllocEnded => <<alloc.pc, alloc.cur.ebb, alloc.cur.pos>>'
                      # <<alloc.pc, alloc.cur.ebb, alloc.cur.pos>>

\* The instructions of the block of the cursor from position p on.
RestFrom(a, p) ==
    SubSeq(a.ebbs[alloc.cur.ebb].insts, p, Len(a.ebbs[alloc.cur.ebb].insts))

AllOpcode(a, from, to, op) ==
    \A q \in from .. to : a.ebbs[alloc.cur.ebb].insts[q].opcode = op

Ignored == Opcode = "fill" \/ (Opcode = "spill" /\ ~is_spill_to_outgoing_arg(alloc))

OtherEbbsUnchanged ==
    /\ alloc'.cur.ebb = alloc.cur.ebb
    /\ \A e \in DOMAIN alloc.ebbs :
          e # alloc.cur.ebb => alloc'.ebbs[e].insts = alloc.ebbs[e].insts
    /\ SubSeq(alloc'.ebbs[alloc.cur.ebb].insts, 1, alloc.cur.pos - 1)
          = SubSeq(alloc.ebbs[alloc.cur.ebb].insts, 1, alloc.cur.pos - 1)

\* A spill or fill met by the loop is passed over.
C30_Ignore ==
    (AtInst /\ Ignored) => alloc' = [alloc EXCEPT !.cur.pos = @ + 1]

\* The visit of an instruction in one step: fills, the instruction, spills;
\* the cursor is then at the instruction that followed it.
C30_Visit ==
    (AtInst /\ ~Ignored /\ ~IsPlain(Opcode) /\ alloc'.pc = "loop") =>
        /\ OtherEbbsUnchanged
        /\ RestFrom(alloc', alloc'.cur.pos) = RestFrom(alloc, alloc.cur.pos + 1)
        /\ \E q \in alloc.cur.pos .. (alloc'.cur.pos - 1) :
              /\ alloc'.ebbs[alloc.cur.ebb].insts[q].opcode
                    = IF Opcode = "copy" THEN "copy_nop" ELSE Opcode
              /\ \A r \in alloc.cur.pos .. (q - 1) :
                    alloc'.ebbs[alloc.cur.ebb].insts[r].opcode
                        \in IF Opcode = "jump" THEN {"fill", "spill"} ELSE {"fill"}
              /\ AllOpcode(alloc', q + 1, alloc'.cur.pos - 1, "spill")

\* The first half of the visit of a plain instruction: fills, and the cursor
\* at the instruction.
C30_Fill ==
    (AtInst /\ IsPlain(Opcode) /\ alloc'.pc = "plain_spill") =>
        /\ OtherEbbsUnchanged
        /\ alloc'.ebbs[alloc.cur.ebb].insts[alloc'.cur.pos].opcode = Opcode
        /\ AllOpcode(alloc', alloc.cur.pos, alloc'.cur.pos - 1, "fill")
        /\ RestFrom(alloc', alloc'.cur.pos + 1) = RestFrom(alloc, alloc.cur.pos + 1)

\* The second half: spills, and the cursor at the instruction that followed.
C30_Spill ==
    (alloc.pc = "plain_spill" /\ alloc'.pc = "loop") =>
        /\ OtherEbbsUnchanged
        /\ alloc'.ebbs[alloc.cur.ebb].insts[alloc.cur.pos].opcode = Opcode
        /\ AllOpcode(alloc', alloc.cur.pos + 1, alloc'.cur.pos - 1, "spill")
        /\ RestFrom(alloc', alloc'.cur.pos) = RestFrom(alloc, alloc.cur.pos + 1)

\* The pass stops early only at a terminator that visit_terminator does not
\* know.
C30_Abort ==
    alloc.pc = "panicked" =>
        /\ alloc.cur.pos <= Len(alloc.ebbs[alloc.cur.ebb].insts)
        /\ Opcode \in {"fallthrough", "br_table"}

C30_Step == C30_Ignore /\ C30_Visit /\ C30_Fill /\ C30_Spill

====
